---- MODULE Spec2Model ----
(***************************************************************************)
(* A model of the AI-Medical-Scheduler appointment pipeline:               *)
(*   - SchedulingAgent  (agents/scheduling_agent.py): the doctor schedule, *)
(*     slot search and slot booking;                                       *)
(*   - LookupAgent      (agents/lookup_agent.py): the patient directory;   *)
(*   - MedicalSchedulerApp (main_simple.py): the turn-by-turn workflow.    *)
(* Agents keep a table in memory (a pandas DataFrame) and write the whole  *)
(* table back to a file; several agent instances may share one file.       *)
(***************************************************************************)
EXTENDS Integers, Sequences, FiniteSets, TLC

VARIABLES
    schedule_xlsx,   \* data/doctors_schedule.xlsx: the persisted schedule table
    schedule_df,     \* SchedulingAgent.schedule_df, one per agent instance
    slots,           \* the list find_available_slots last returned to each caller
    lastOp,          \* history: the last scheduling call, its arguments and outcome
    calls,           \* history: the number of calls (or user turns) made so far
    patients_csv,    \* data/patients.csv: the persisted patient directory
    patients_df,     \* LookupAgent.patients_df, one per agent instance
    lastLookup,      \* history: the last directory call, its arguments and outcome
    registered,      \* history: the patients search_patient has registered as new
    state,           \* MedicalSchedulerApp.state (its available_slots is slots[1])
    greeting_agent,  \* GreetingAgent.current_field and collected_data
    insurance_agent, \* InsuranceAgent.current_field_index and collected_data
    confirmed_appointments,  \* ConfirmationAgent.confirmed_appointments
    outbox,          \* the kinds of notification sent so far
    reminders,       \* what schedule_reminders last returned
    reply,           \* the kind of answer the last turn got
    lastTurn,        \* history: the last call made on an agent directly
    now,             \* datetime.now(), in seconds
    issued           \* history: the appointment ids confirm_appointment has issued

schedVars == <<schedule_xlsx, schedule_df, slots, lastOp>>

dirVars == <<patients_csv, patients_df, lastLookup, registered>>

appVars == <<state, greeting_agent, insurance_agent, confirmed_appointments, outbox,
             reminders, reply, lastTurn, now, issued>>

vars == <<schedule_xlsx, schedule_df, slots, lastOp, calls,
          patients_csv, patients_df, lastLookup, registered,
          state, greeting_agent, insurance_agent, confirmed_appointments, outbox,
          reminders, reply, lastTurn, now, issued>>

-----------------------------------------------------------------------------
(* Bounds of the schedule model *)

Inst == {1, 2}
App == 1                                 \* the instance the application holds                           \* agent instances sharing the files
Doctors == {"Dr. Naveen", "Dr. Naresh"}
Locations == {"Gachibowli"}
Dates == {1}                             \* a date as a day number
Times == {930, 960, 990}                 \* 15:30, 16:00, 16:30 in minutes of the day
PatientTypes == {"new", "returning"}

SlotMinutes == 30
NewPatientMinutes == 60
MinutesPerDay == 1440
MaxOffered == 7
MaxCalls == 5                            \* scheduling calls in one behaviour

\* The rows of the schedule: one per doctor, location, date and time. The
\* second doctor keeps a single row, which is enough to tell the masks apart.
Rows ==
    { r \in [doctor : Doctors, location : Locations, date : Dates, time : Times] :
        r.doctor = "Dr. Naveen" \/ r.time = 960 }

\* generate_data.py gives an available slot 60 minutes, generate_data_v2.py 30.
GeneratedDurations == {30, 60}

GeneratedRow(avail, d) ==
    [available |-> avail, duration_available |-> IF avail THEN d ELSE 0]

GeneratedSchedules ==
    UNION { { [r \in Rows |-> GeneratedRow(r \in A, d)] : A \in SUBSET Rows }
            : d \in GeneratedDurations }

-----------------------------------------------------------------------------
(* SchedulingAgent: pure parts *)

Stamp(date, time) == date * MinutesPerDay + time

\* datetime + timedelta(minutes=30), rendered as %H:%M: the date is dropped.
NextTime(t) == (t + SlotMinutes) % MinutesPerDay

Key(slot) ==
    [doctor |-> slot.doctor, location |-> slot.location,
     date |-> slot.date, time |-> slot.time]

SlotMask(df, doctor, location, date, time) ==
    { r \in DOMAIN df : /\ r.doctor = doctor
                        /\ r.location = location
                        /\ r.date = date
                        /\ r.time = time }

\* A booking that clears the flag and forgets the duration.
MarkBookedFlagOnly(df, mask) ==
    [r \in DOMAIN df |->
        IF r \in mask THEN [df[r] EXCEPT !.available = FALSE] ELSE df[r]]

\* df.loc[mask, 'available'] = False; df.loc[mask, 'duration_available'] = 0.
\* The 'status' label the code also writes is read by nothing and is left out.
MarkBooked(df, mask) ==
    [r \in DOMAIN df |->
        IF r \in mask THEN [available |-> FALSE, duration_available |-> 0]
        ELSE df[r]]

\* update_doctor_schedule, the table it leaves in memory and writes to the file.
UpdatedSchedule(df, slot, patient_type) ==
    IF patient_type = "new"
    THEN LET mask1 == SlotMask(df, slot.doctor, slot.location, slot.date, slot.time)
             mask2 == SlotMask(df, slot.doctor, slot.location, slot.date,
                               NextTime(slot.time))
         IN  MarkBooked(MarkBooked(df, mask1), mask2)
    ELSE LET mask == SlotMask(df, slot.doctor, slot.location, slot.date, slot.time)
         IN  MarkBooked(df, mask)

\* _book_consecutive_slots: is there an available row 30 minutes later?
NextSlotAvailable(df, slot) ==
    \E r \in SlotMask(df, slot.doctor, slot.location, slot.date, NextTime(slot.time)) :
        df[r].available

SecondSlot(slot) ==
    [doctor |-> slot.doctor, location |-> slot.location, date |-> slot.date,
     time |-> NextTime(slot.time), duration_available |-> SlotMinutes]

\* _book_consecutive_slots: the table after both halves are booked.
ConsecutiveBooked(df, slot) ==
    UpdatedSchedule(UpdatedSchedule(df, slot, "consecutive_first"),
                    SecondSlot(slot), "consecutive_second")

\* The rows a set of keys holds in ascending (date, time) order.
RECURSIVE SortByDatetime(_)
SortByDatetime(S) ==
    IF S = {} THEN <<>>
    ELSE LET first == CHOOSE r \in S :
                          \A q \in S : Stamp(r.date, r.time) <= Stamp(q.date, q.time)
         IN  <<first>> \o SortByDatetime(S \ {first})

\* An offer that is not cut short.
HeadAll(seq) == seq

Head7(seq) == IF Len(seq) <= MaxOffered THEN seq ELSE SubSeq(seq, 1, MaxOffered)

\* The row filter shared by the 30-minute search and the consecutive search.
AvailableFor(df, doctor, location, duration) ==
    { r \in DOMAIN df : /\ r.doctor = doctor
                        /\ r.location = location
                        /\ df[r].available = TRUE
                        /\ df[r].duration_available >= duration }

\* A pairing that takes the next available row, whatever the gap.
FindNextRowSlots(df, doctor, location) ==
    LET sorted == SortByDatetime(AvailableFor(df, doctor, location, SlotMinutes))
    IN  { sorted[i] : i \in 1..(Len(sorted) - 1) }

\* _find_consecutive_slots: the first row of each adjacent pair 30 minutes apart.
FindConsecutiveSlots(df, doctor, location) ==
    LET sorted == SortByDatetime(AvailableFor(df, doctor, location, SlotMinutes))
    IN  { sorted[i] : i \in { j \in 1..(Len(sorted) - 1) :
            Stamp(sorted[j + 1].date, sorted[j + 1].time)
              - Stamp(sorted[j].date, sorted[j].time) = SlotMinutes } }

FilterAvailableSlots(df, doctor, location, duration) ==
    Head7(SortByDatetime(
        IF duration = NewPatientMinutes
        THEN FindConsecutiveSlots(df, doctor, location)
        ELSE AvailableFor(df, doctor, location, duration)))

\* AppointmentSlot(...): duration_available must lie in 30..60, else the row is skipped.
RECURSIVE CreateAppointmentSlots(_, _)
CreateAppointmentSlots(df, rows) ==
    IF rows = <<>> THEN <<>>
    ELSE LET r == Head(rows)
             d == df[r].duration_available
             rest == CreateAppointmentSlots(df, Tail(rows))
         IN  IF d >= 30 /\ d <= 60
             THEN <<[doctor |-> r.doctor, location |-> r.location, date |-> r.date,
                     time |-> r.time, duration_available |-> d]>> \o rest
             ELSE rest

-----------------------------------------------------------------------------
(* LookupAgent: the patient directory (data/patients.csv) *)

MaxPatients == 4                         \* rows the directory file may hold
MaxLookups == 4                          \* directory calls in one behaviour

NewPatientDuration == 60
\* A returning patient handed the new-patient length.
ReturningDurationAsNew == NewPatientDuration
ReturningDuration == 30

\* Names are strings of characters; the directory compares them in lower case.
UpperChars == <<"A", "B", "C", "D", "E", "F", "G", "H", "I", "J", "K", "L", "M",
               "N", "O", "P", "Q", "R", "S", "T", "U", "V", "W", "X", "Y", "Z">>
LowerChars == <<"a", "b", "c", "d", "e", "f", "g", "h", "i", "j", "k", "l", "m",
               "n", "o", "p", "q", "r", "s", "t", "u", "v", "w", "x", "y", "z">>
LowerCase ==
    [c \in { UpperChars[k] : k \in 1..Len(UpperChars) } |->
        LowerChars[CHOOSE k \in 1..Len(UpperChars) : UpperChars[k] = c]]
UpperCase ==
    [c \in { LowerChars[k] : k \in 1..Len(LowerChars) } |->
        UpperChars[CHOOSE k \in 1..Len(LowerChars) : LowerChars[k] = c]]
\* str.lower() of one character
Lower(c) == IF c \in DOMAIN LowerCase THEN LowerCase[c] ELSE c
LowerStr(s) == [k \in 1..Len(s) |-> Lower(s[k])]

\* Python's `needle in hay` on strings.
Contains(hay, needle) ==
    \E k \in 0..(Len(hay) - Len(needle)) : SubSeq(hay, k + 1, k + Len(needle)) = needle

\* str.split(): the words between runs of blanks.
RECURSIVE SplitWords(_, _)
SplitWords(s, cur) ==
    IF s = <<>> THEN (IF cur = <<>> THEN <<>> ELSE <<cur>>)
    ELSE IF Head(s) = " "
         THEN (IF cur = <<>> THEN <<>> ELSE <<cur>>) \o SplitWords(Tail(s), <<>>)
         ELSE SplitWords(Tail(s), Append(cur, Head(s)))

\* ' '.join(words)
RECURSIVE JoinWords(_)
JoinWords(ws) ==
    IF ws = <<>> THEN <<>>
    ELSE IF Len(ws) = 1 THEN ws[1]
    ELSE ws[1] \o <<" ">> \o JoinWords(Tail(ws))

FirstName(name) ==
    IF name = <<>> THEN <<>> ELSE SplitWords(name, <<>>)[1]
LastName(name) ==
    IF Len(SplitWords(name, <<>>)) > 1 THEN JoinWords(Tail(SplitWords(name, <<>>)))
    ELSE <<>>

\* A date of birth is kept as the three numbers typed and the separator
\* between them ("" for the compact form YYYYMMDD); DobText is the text typed:
\* four digits for a year, two for a month or a day.
DigitChars == <<"0", "1", "2", "3", "4", "5", "6", "7", "8", "9">>

RECURSIVE Digits(_, _)
Digits(n, width) ==
    IF width = 0 THEN <<>>
    ELSE Digits(n \div 10, width - 1) \o <<DigitChars[(n % 10) + 1]>>

DobPart(n) == Digits(n, IF n >= 1000 THEN 4 ELSE 2)

DobText(dob) ==
    IF dob.sep = "" THEN Digits(dob.a, 4) \o Digits(dob.b, 2) \o Digits(dob.c, 2)
    ELSE DobPart(dob.a) \o <<dob.sep>> \o DobPart(dob.b) \o <<dob.sep>> \o DobPart(dob.c)

\* str.split(sep)
RECURSIVE SplitOn(_, _, _)
SplitOn(s, sep, cur) ==
    IF s = <<>> THEN <<cur>>
    ELSE IF Head(s) = sep THEN <<cur>> \o SplitOn(Tail(s), sep, <<>>)
    ELSE SplitOn(Tail(s), sep, Append(cur, Head(s)))

\* str.isdigit()
IsDigit(s) ==
    s # <<>> /\ \A k \in 1..Len(s) : \E j \in 1..Len(DigitChars) : s[k] = DigitChars[j]

\* str.zfill(width)
RECURSIVE ZFill(_, _)
ZFill(s, width) == IF Len(s) >= width THEN s ELSE ZFill(<<"0">> \o s, width)

HasChar(s, c) == \E k \in 1..Len(s) : s[k] = c
CountChar(s, c) == Cardinality({ k \in 1..Len(s) : s[k] = c })

\* month, day, year = parts; year + month.zfill(2) + day.zfill(2)
MonthDayYear(s, sep) ==
    LET parts == SplitOn(s, sep, <<>>) IN
    IF Len(parts) = 3 /\ \A k \in 1..3 : IsDigit(parts[k])
    THEN parts[3] \o ZFill(parts[1], 2) \o ZFill(parts[2], 2)
    ELSE s

\* year, month, day = parts; year + month.zfill(2) + day.zfill(2)
YearMonthDay(s, sep) ==
    LET parts == SplitOn(s, sep, <<>>) IN
    IF Len(parts) = 3 /\ \A k \in 1..3 : IsDigit(parts[k])
    THEN parts[1] \o ZFill(parts[2], 2) \o ZFill(parts[3], 2)
    ELSE s

\* _normalize_dob_for_search on the text of a date: the branches in the
\* order of the if / elif chain.
NormalizeDobForSearch(s) ==
    IF HasChar(s, "/") THEN MonthDayYear(s, "/")
    ELSE IF HasChar(s, "-") THEN MonthDayYear(s, "-")
    ELSE IF Len(s) = 10 /\ CountChar(s, "-") = 2 THEN YearMonthDay(s, "-")
    ELSE IF Len(s) = 8 /\ IsDigit(s) THEN s
    ELSE s

\* A patient id PAT_<num> (date = 0) or PAT_<date>_<num>.
PatientId(date, num) == [date |-> date, num |-> num]
NoId == PatientId(0, 0)

MaxOf(S) == IF S = {} THEN 0
            ELSE LET x == CHOOSE y \in S : \A z \in S : z <= y IN x

ExistingNumbers(df) == { df[k].patient_id.num : k \in 1..Len(df) }

GenerateNextPatientId(df) ==
    IF ExistingNumbers(df) # {} THEN PatientId(0, MaxOf(ExistingNumbers(df)) + 1)
    ELSE PatientId(0, 1)

\* The dates of birth of the model: calendar dates and the forms they are
\* written in (MM/DD/YYYY, MM-DD-YYYY, YYYYMMDD, YYYY-MM-DD).
CalendarDates == { [year |-> 1990, month |-> 1, day |-> 2],
                   [year |-> 1990, month |-> 2, day |-> 1],
                   [year |-> 1985, month |-> 11, day |-> 30] }

Renderings(date) ==
    { [sep |-> "/", a |-> date.month, b |-> date.day, c |-> date.year],
      [sep |-> "-", a |-> date.month, b |-> date.day, c |-> date.year],
      [sep |-> "", a |-> date.year, b |-> date.month, c |-> date.day],
      [sep |-> "-", a |-> date.year, b |-> date.month, c |-> date.day] }

Dobs == { [sep |-> "/", a |-> 1, b |-> 2, c |-> 1990],
          [sep |-> "-", a |-> 1, b |-> 2, c |-> 1990] }

NoDob == [sep |-> "", a |-> 0, b |-> 0, c |-> 0]

\* _normalize_dob_for_search of every date of the model, computed once.
NormalizedDobs ==
    [dob \in UNION { Renderings(date) : date \in CalendarDates } \cup {NoDob} |->
        NormalizeDobForSearch(DobText(dob))]

DbName(row) == LowerStr(row.first_name \o <<" ">> \o row.last_name)

Matches(row, patient_name, dob) ==
    /\ Contains(DbName(row), patient_name)
    /\ NormalizedDobs[dob] = NormalizedDobs[row.dob]

\* _find_patient_by_name_and_dob: the index of the first matching row, 0 if none.
FindPatientByNameAndDob(df, patient_name, dob) ==
    LET matching == { k \in 1..Len(df) : Matches(df[k], patient_name, dob) } IN
    IF matching # {}
    THEN CHOOSE k \in matching : \A j \in matching : k <= j
    ELSE 0

\* PatientLookupResult with its validate_duration_matches_type.
DurationMatchesType(patient_type, duration) ==
    /\ ~(patient_type = "new" /\ duration # 60)
    /\ ~(patient_type = "returning" /\ duration # 30)

PatientLookupResult(patient_id, patient_type, duration) ==
    IF DurationMatchesType(patient_type, duration)
    THEN [kind |-> "result", patient_id |-> patient_id, patient_type |-> patient_type,
          appointment_duration |-> duration]
    ELSE [kind |-> "ValidationError", patient_id |-> NoId, patient_type |-> "",
          appointment_duration |-> 0]

NoResult == [kind |-> "None", patient_id |-> NoId, patient_type |-> "",
             appointment_duration |-> 0]

NewPatientRecord(df, name, dob) ==
    [patient_id |-> GenerateNextPatientId(df),
     first_name |-> FirstName(name), last_name |-> LastName(name),
     dob |-> dob, patient_type |-> "new", insurance_carrier |-> ""]

\* A search that registers patients even when the table did not load.
SearchPatientUnguarded(df, csv, name, dob) ==
    LET found_patient == FindPatientByNameAndDob(df, LowerStr(name), dob)
        new_patient_record == NewPatientRecord(df, name, dob)
    IN
    IF found_patient # 0
    THEN [result |-> PatientLookupResult(df[found_patient].patient_id,
                                         "returning", ReturningDuration),
          df |-> df, csv |-> csv]
    ELSE [result |-> PatientLookupResult(new_patient_record.patient_id, "new",
                                         NewPatientDuration),
          df |-> Append(csv, new_patient_record),
          csv |-> Append(csv, new_patient_record)]

\* search_patient on the table df of an instance and the file csv: the result
\* it returns and the table and file it leaves.  (The contact columns and the
\* message text are left out: nothing reads them back.)
SearchPatient(df, csv, name, dob) ==
    LET found_patient == FindPatientByNameAndDob(df, LowerStr(name), dob)
        new_patient_record == NewPatientRecord(df, name, dob)
    IN
    IF df = <<>> THEN [result |-> NoResult, df |-> df, csv |-> csv]
    ELSE IF found_patient # 0
    THEN [result |-> PatientLookupResult(df[found_patient].patient_id,
                                         "returning", ReturningDuration),
          df |-> df, csv |-> csv]
    ELSE [result |-> PatientLookupResult(new_patient_record.patient_id, "new",
                                         NewPatientDuration),
          df |-> Append(csv, new_patient_record),
          csv |-> Append(csv, new_patient_record)]

HasPatient(df, patient_id) == \E k \in 1..Len(df) : df[k].patient_id = patient_id

\* update_patient_insurance_info: df.loc[mask, 'insurance_carrier'] = carrier
WithInsurance(df, patient_id, carrier) ==
    [k \in 1..Len(df) |->
        IF df[k].patient_id = patient_id
        THEN [df[k] EXCEPT !.insurance_carrier = carrier] ELSE df[k]]

\* mark_patient_as_returning: df.loc[mask, 'patient_type'] = 'returning'
AsReturning(df, patient_id) ==
    [k \in 1..Len(df) |->
        IF df[k].patient_id = patient_id
        THEN [df[k] EXCEPT !.patient_type = "returning"] ELSE df[k]]

NoName == <<>>
NoLookup == [op |-> "none", inst |-> 1, name |-> NoName, dob |-> NoDob,
             result |-> NoResult, available |-> FALSE, matched |-> FALSE,
             numsBefore |-> {}, csvLenBefore |-> 0,
             known |-> {}, wrote |-> FALSE, sameDate |-> FALSE]

-----------------------------------------------------------------------------
(* SchedulingAgent: operations *)

RowFree(df, r) == r \in DOMAIN df /\ df[r].available

\* What the call was given, what it answered, and what it did to the caller's
\* table (df is the table the call leaves, file the file it leaves).
Record(op, i, ptype, slot, ok, df, file) ==
    [op |-> op, inst |-> i, patient_type |-> ptype, slot |-> slot, success |-> ok,
     free |-> { r \in Rows : RowFree(schedule_df[i], r) },
     fileFree |-> { r \in Rows : RowFree(schedule_xlsx, r) },
     changed |-> { r \in Rows : df[r] # schedule_df[i][r] }]

NoSlot == [doctor |-> "", location |-> "", date |-> 0, time |-> 0,
           duration_available |-> 0]

NoOp == [op |-> "none", inst |-> 1, patient_type |-> "", slot |-> NoSlot,
         success |-> TRUE, free |-> {}, fileFree |-> {}, changed |-> {}]

\* No call has been made on an agent directly yet.
NoTurn == [agent |-> "none", op |-> "none"]

\* create_initial_state() and the freshly constructed agents.
AppIdle ==
    /\ state = [current_step |-> "greeting", patient_info |-> [f \in {} |-> ""],
                lookup_result |-> NoResult, selected_slot |-> NoSlot,
                insurance_info |-> [f \in {} |-> ""], final_booking |-> FALSE]
    /\ greeting_agent = [current_field |-> 0, collected_data |-> [f \in {} |-> ""]]
    /\ insurance_agent = [current_field_index |-> 0,
                          collected_data |-> [f \in {} |-> ""]]
    /\ confirmed_appointments = <<>>
    /\ outbox = {}
    /\ reminders = <<>>
    /\ reply = "greeting"
    /\ lastTurn = NoTurn
    /\ now = 0
    /\ issued = <<>>

DirIdle ==
    /\ patients_csv = <<>>
    /\ patients_df = [i \in Inst |-> <<>>]
    /\ lastLookup = NoLookup
    /\ registered = {}

\* A call that leaves the table df in instance i's memory; saved says whether
\* it was written to the file (to_excel) as well.
Leave(i, df, saved, op, ptype, slot, ok) ==
    /\ UNCHANGED dirVars
    /\ UNCHANGED appVars
    /\ calls < MaxCalls
    /\ calls' = calls + 1
    /\ schedule_df' = [schedule_df EXCEPT ![i] = df]
    /\ schedule_xlsx' = IF saved THEN df ELSE schedule_xlsx
    /\ lastOp' = Record(op, i, ptype, slot, ok, df,
                        IF saved THEN df ELSE schedule_xlsx)

\* SchedulingAgent(): a new instance reads the file.
LoadDoctorSchedule(i) ==
    /\ Leave(i, schedule_xlsx, FALSE, "load", "", NoSlot, TRUE)
    /\ slots' = [slots EXCEPT ![i] = <<>>]

\* What find_available_slots was asked for, in the shape of a slot.
FindRequest(doctor, location, duration) ==
    [doctor |-> doctor, location |-> location, date |-> 0, time |-> 0,
     duration_available |-> duration]

\* find_available_slots; the call counts as a success when it answers with the
\* list of slots and not with the 'no slots' message.
FindAvailableSlots(i, doctor, location, duration) ==
    LET available_slots == FilterAvailableSlots(schedule_df[i], doctor, location, duration)
    IN
    /\ slots' = [slots EXCEPT ![i] =
                    CreateAppointmentSlots(schedule_df[i], available_slots)]
    /\ Leave(i, schedule_df[i], FALSE, "find", "",
             FindRequest(doctor, location, duration), available_slots # <<>>)

\* update_doctor_schedule called directly on a slot of the offered list.
UpdateDoctorSchedule(i, k, patient_type) ==
    /\ k \in 1..Len(slots[i])
    /\ Leave(i, UpdatedSchedule(schedule_df[i], slots[i][k], patient_type), TRUE,
             "update", patient_type, slots[i][k], TRUE)
    /\ UNCHANGED slots

\* _book_consecutive_slots: FALSE and nothing touched unless the next row is free.
BookConsecutiveSlots(i, slot, patient_type) ==
    IF ~NextSlotAvailable(schedule_df[i], slot)
    THEN Leave(i, schedule_df[i], FALSE, "book", patient_type, slot, FALSE)
    ELSE Leave(i, ConsecutiveBooked(schedule_df[i], slot), TRUE,
               "book", patient_type, slot, TRUE)

BookAppointmentSlot(i, slot_index, patient_type) ==
    /\ slots[i] # <<>>
    /\ slot_index \in 0..(Len(slots[i]) + 1)
    /\ IF slot_index - 1 < 0 \/ slot_index - 1 >= Len(slots[i])
       THEN Leave(i, schedule_df[i], FALSE, "book", patient_type, NoSlot, FALSE)
       ELSE IF patient_type = "new"
            THEN BookConsecutiveSlots(i, slots[i][slot_index], patient_type)
            ELSE Leave(i, UpdatedSchedule(schedule_df[i], slots[i][slot_index],
                                          patient_type),
                       TRUE, "book", patient_type, slots[i][slot_index], TRUE)
    /\ UNCHANGED slots

SchedInit ==
    /\ schedule_xlsx \in GeneratedSchedules
    /\ schedule_df = [i \in Inst |-> schedule_xlsx]
    /\ slots = [i \in Inst |-> <<>>]
    /\ calls = 0
    /\ lastOp = NoOp
    /\ DirIdle
    /\ AppIdle

SchedLoad == \E i \in Inst : LoadDoctorSchedule(i)
SchedFind ==
    \E i \in Inst, d \in Doctors, l \in Locations, m \in {SlotMinutes, NewPatientMinutes} :
        FindAvailableSlots(i, d, l, m)
SchedUpdate ==
    \E i \in Inst, k \in 1..MaxOffered, t \in PatientTypes : UpdateDoctorSchedule(i, k, t)
SchedBook ==
    \E i \in Inst, k \in 0..(MaxOffered + 1), t \in PatientTypes :
        BookAppointmentSlot(i, k, t)

SchedNext == SchedLoad \/ SchedFind \/ SchedUpdate \/ SchedBook

SpecSched == SchedInit /\ [][SchedNext]_vars

\* One agent searching a schedule with more rows than a single offer holds:
\* two days of four half-hour rows for the first doctor.
WideRows ==
    Rows \cup { r \in [doctor : {"Dr. Naveen"}, location : Locations,
                       date : {1, 2}, time : {900, 930, 960, 990}] : TRUE }

WideSchedules ==
    UNION { { [r \in WideRows |-> GeneratedRow(r \in A, d)] : A \in SUBSET WideRows }
            : d \in GeneratedDurations }

FindInit ==
    /\ schedule_xlsx \in WideSchedules
    /\ schedule_df = [i \in Inst |-> schedule_xlsx]
    /\ slots = [i \in Inst |-> <<>>]
    /\ calls = 0
    /\ lastOp = NoOp
    /\ DirIdle
    /\ AppIdle

FindSlots ==
    \E d \in Doctors, l \in Locations, m \in {SlotMinutes, NewPatientMinutes} :
        FindAvailableSlots(App, d, l, m)

FindNext == FindSlots

SpecFind == FindInit /\ [][FindNext]_vars

-----------------------------------------------------------------------------
(* LookupAgent: operations *)

Names == { <<"A", " ", "B">>, <<"A", "a", " ", "B">> }
Carriers == {"Aetna"}

\* Directories as generate_data writes them (PAT_001, PAT_002, ...; dates of
\* birth MM/DD/YYYY), one of them holding a dated id, and one with no rows.
GeneratedPatient(id, name, dob, ptype, carrier) ==
    [patient_id |-> id, first_name |-> FirstName(name), last_name |-> LastName(name),
     dob |-> dob, patient_type |-> ptype, insurance_carrier |-> carrier]
Betty == GeneratedPatient(PatientId(0, 1), <<"B", " ", "B">>,
                          [sep |-> "/", a |-> 1, b |-> 2, c |-> 1990], "returning", "Aetna")
Abby == GeneratedPatient(PatientId(20250903, 2), <<"A", "a", " ", "B">>,
                         [sep |-> "/", a |-> 2, b |-> 1, c |-> 1990], "new", "")
GeneratedDirectories == { <<>>, <<Betty>>, <<Betty, Abby>> }

\* The calendar date a date of birth stands for: year first when the first
\* number is a year, month first otherwise.
CalendarDate(dob) ==
    IF dob.sep = "" \/ dob.a >= 1000
    THEN [year |-> dob.a, month |-> dob.b, day |-> dob.c]
    ELSE [year |-> dob.c, month |-> dob.a, day |-> dob.b]

\* The registrations of (name, dob) an instance knows of: its own, and those
\* made before it last loaded the file.
KnownTo(i, name, dob) ==
    { g.patient_id : g \in { h \in registered :
                                h.name = name /\ h.dob = dob /\ i \in h.sees } }

DirLeave(i, op, name, dob, out) ==
    /\ UNCHANGED schedVars
    /\ UNCHANGED appVars
    /\ calls < MaxLookups
    /\ calls' = calls + 1
    /\ patients_df' = [patients_df EXCEPT ![i] = out.df]
    /\ patients_csv' = out.csv
    /\ lastLookup' = [op |-> op, inst |-> i, name |-> name, dob |-> dob,
                      result |-> out.result,
                      available |-> patients_df[i] # <<>>,
                      matched |-> FindPatientByNameAndDob(patients_df[i],
                                                          LowerStr(name), dob) # 0,
                      numsBefore |-> ExistingNumbers(patients_df[i]),
                      csvLenBefore |-> Len(patients_csv),
                      known |-> KnownTo(i, name, dob),
                      wrote |-> out.csv # patients_csv,
                      sameDate |-> \E k \in 1..Len(patients_df[i]) :
                          /\ Contains(DbName(patients_df[i][k]), LowerStr(name))
                          /\ CalendarDate(patients_df[i][k].dob) = CalendarDate(dob)]

\* LookupAgent(): a new instance reads the file; when the file is not found
\* or cannot be read, it is left with pd.DataFrame(), a table with no rows.
LoadPatientDatabase(i, loaded) ==
    /\ DirLeave(i, "load", NoName, NoDob,
                [result |-> NoResult, df |-> IF loaded THEN patients_csv ELSE <<>>,
                 csv |-> patients_csv])
    /\ registered' = { [g EXCEPT !.sees = IF loaded THEN g.sees \cup {i}
                                          ELSE g.sees \ {i}] : g \in registered }

SearchPatientCall(i, name, dob) ==
    LET out == SearchPatient(patients_df[i], patients_csv, name, dob) IN
    /\ Len(out.csv) <= MaxPatients
    /\ DirLeave(i, "search", name, dob, out)
    /\ registered' =
          IF out.csv # patients_csv
          THEN registered \cup { [name |-> name, dob |-> dob,
                                  patient_id |-> GenerateNextPatientId(patients_df[i]),
                                  sees |-> {i}] }
          ELSE registered

\* (On a table that did not load, the column lookup raises KeyError, which
\* the method catches: nothing is written, as when no row has the id.)
UpdatePatientInsuranceInfo(i, patient_id, carrier) ==
    /\ IF HasPatient(patients_df[i], patient_id)
       THEN DirLeave(i, "insure", NoName, NoDob,
                     [result |-> NoResult,
                      df |-> WithInsurance(patients_df[i], patient_id, carrier),
                      csv |-> WithInsurance(patients_df[i], patient_id, carrier)])
       ELSE DirLeave(i, "insure", NoName, NoDob,
                     [result |-> NoResult, df |-> patients_df[i], csv |-> patients_csv])
    /\ UNCHANGED registered

MarkPatientAsReturning(i, patient_id) ==
    /\ IF HasPatient(patients_df[i], patient_id)
       THEN DirLeave(i, "mark", NoName, NoDob,
                     [result |-> NoResult,
                      df |-> AsReturning(patients_df[i], patient_id),
                      csv |-> AsReturning(patients_df[i], patient_id)])
       ELSE DirLeave(i, "mark", NoName, NoDob,
                     [result |-> NoResult, df |-> patients_df[i], csv |-> patients_csv])
    /\ UNCHANGED registered

SchedIdle ==
    /\ schedule_xlsx = [r \in Rows |-> GeneratedRow(TRUE, SlotMinutes)]
    /\ schedule_df = [i \in Inst |-> schedule_xlsx]
    /\ slots = [i \in Inst |-> <<>>]
    /\ lastOp = NoOp

DirInit ==
    /\ SchedIdle
    /\ AppIdle
    /\ calls = 0
    /\ patients_csv \in GeneratedDirectories
    /\ patients_df = [i \in Inst |-> patients_csv]
    /\ lastLookup = NoLookup
    /\ registered = {}

KnownIds == { patients_csv[k].patient_id : k \in 1..Len(patients_csv) }

DirLoad == \E i \in Inst, loaded \in BOOLEAN : LoadPatientDatabase(i, loaded)
DirSearch == \E i \in Inst, n \in Names, d \in Dobs : SearchPatientCall(i, n, d)
DirInsure ==
    \E i \in Inst, id \in KnownIds, c \in Carriers : UpdatePatientInsuranceInfo(i, id, c)
DirMark == \E i \in Inst, id \in KnownIds : MarkPatientAsReturning(i, id)

DirNext == DirLoad \/ DirSearch \/ DirInsure \/ DirMark

SpecDir == DirInit /\ [][DirNext]_vars

\* One instance searching by dates of birth written in every supported form.
DobInit == DirInit /\ patients_csv # <<>>

SearchDates == { date \in CalendarDates : date.month # 2 }

DobSearch ==
    \E n \in Names, date \in SearchDates : \E d \in Renderings(date) :
        SearchPatientCall(App, n, d)

DobNext == DobSearch

SpecDob == DobInit /\ [][DobNext]_vars

-----------------------------------------------------------------------------
(* MedicalSchedulerApp (main_simple.py): one conversation, using the lookup
   and scheduling agents of instance 1 *)

MaxTurns == 11                           \* user turns in one behaviour

\* A line the user types: blank, text the validator of the current field
\* rejects, or an answer it accepts.
Blank == [kind |-> "blank"]
Rejected == [kind |-> "rejected"]
Accepted(value) == [kind |-> "accepted", value |-> value]

Fields == <<"patient_name", "date_of_birth", "phone", "email",
            "preferred_doctor", "location">>
RequiredFields == <<"primary_carrier", "member_id", "group_number">>

\* Answers the validator of each field accepts.
FieldValues(field) ==
    CASE field = "patient_name" -> Names
      [] field = "date_of_birth" -> { d \in Dobs : d.sep = "/" }
      [] field = "phone" -> {"5551234567"}
      [] field = "email" -> {"ab@example.com"}
      [] field = "preferred_doctor" -> Doctors
      [] field = "location" -> Locations
      [] field = "primary_carrier" -> Carriers
      [] field = "member_id" -> {"MEM12345"}
      [] field = "group_number" -> {"GRP123"}

\* confirm_appointment(self, appointment_data, patient_info, insurance_info,
\* selected_slot) and the positional arguments _complete_booking passes to it.
ConfirmAppointmentParams == 4
ConfirmAppointmentArgs == 5

\* ReminderAgent.reminder_schedule: hours before the appointment.
ReminderSchedule == <<24, 2, 1>>

\* _do_lookup: state["lookup_result"] is assigned unless search_patient raised.
DoLookup(previous, out) ==
    IF out.result.kind = "ValidationError" THEN previous ELSE out.result

\* _do_scheduling: find_available_slots reads lookup_result.appointment_duration,
\* which raises on None and leaves state["available_slots"] as it was.
DoScheduling(previous, df, info, lookup_result) ==
    IF lookup_result.kind # "result" THEN previous
    ELSE CreateAppointmentSlots(df,
             FilterAvailableSlots(df, info.preferred_doctor, info.location,
                                  lookup_result.appointment_duration))

\* confirm_appointment: the record it stores.
ConfirmationRecord(confirmed, patient_id, carrier, slot) ==
    [appointment_id |-> Len(confirmed) + 1, patient_id |-> patient_id,
     status |-> "confirmed", insurance_carrier |-> carrier,
     doctor |-> slot.doctor, location |-> slot.location,
     appointment_date |-> slot.date, appointment_time |-> slot.time,
     duration |-> slot.duration_available]

AppUnchanged == UNCHANGED <<lastOp, lastLookup, registered, lastTurn, now, issued>>

Turn(kind) ==
    /\ calls < MaxTurns
    /\ calls' = calls + 1
    /\ reply' = kind
    /\ AppUnchanged

\* _handle_greeting
HandleGreeting(user_input) ==
    /\ state.current_step = "greeting"
    /\ IF user_input = Blank
       THEN /\ Turn("repeat")
            /\ UNCHANGED <<state, greeting_agent, insurance_agent, confirmed_appointments,
                           outbox, reminders, schedule_xlsx, schedule_df, slots,
                           patients_csv, patients_df>>
       ELSE IF greeting_agent.current_field >= Len(Fields)
       THEN /\ Turn("Error in greeting phase")
            /\ UNCHANGED <<state, greeting_agent, insurance_agent, confirmed_appointments,
                           outbox, reminders, schedule_xlsx, schedule_df, slots,
                           patients_csv, patients_df>>
       ELSE IF user_input.kind # "accepted"
       THEN /\ Turn("invalid")
            /\ UNCHANGED <<state, greeting_agent, insurance_agent, confirmed_appointments,
                           outbox, reminders, schedule_xlsx, schedule_df, slots,
                           patients_csv, patients_df>>
       ELSE LET field == Fields[greeting_agent.current_field + 1]
                data == [f \in DOMAIN greeting_agent.collected_data \cup {field} |->
                            IF f = field THEN user_input.value
                            ELSE greeting_agent.collected_data[f]]
                out == SearchPatient(patients_df[App], patients_csv,
                                     data.patient_name, data.date_of_birth)
                found == DoLookup(state.lookup_result, out)
            IN
            /\ greeting_agent' = [current_field |-> greeting_agent.current_field + 1,
                                  collected_data |-> data]
            /\ IF greeting_agent.current_field + 1 >= Len(Fields)
               THEN /\ Len(out.csv) <= MaxPatients
                    /\ Turn("slots offered")
                    /\ patients_df' = [patients_df EXCEPT ![App] = out.df]
                    /\ patients_csv' = out.csv
                    /\ slots' = [slots EXCEPT ![App] =
                                    DoScheduling(slots[App], schedule_df[App], data, found)]
                    /\ state' = [state EXCEPT !.patient_info = data,
                                              !.lookup_result = found,
                                              !.current_step = "slot_selection"]
               ELSE /\ Turn("next field")
                    /\ UNCHANGED <<state, slots, patients_csv, patients_df>>
            /\ UNCHANGED <<insurance_agent, confirmed_appointments, outbox, reminders,
                           schedule_xlsx, schedule_df>>

\* _handle_slot_selection: choice is "first" ('1', 'first', 'yes' or a blank
\* line), a number, or text that is not a number.
HandleSlotSelection(choice) ==
    /\ state.current_step = "slot_selection"
    /\ UNCHANGED <<greeting_agent, insurance_agent, confirmed_appointments, outbox,
                   reminders, schedule_xlsx, schedule_df, slots, patients_csv,
                   patients_df>>
    /\ IF slots[App] = <<>>
       THEN Turn("No available slots found") /\ UNCHANGED state
       ELSE IF choice.kind = "first"
       THEN /\ Turn("Slot Selected")
            /\ state' = [state EXCEPT !.selected_slot = slots[App][1],
                                      !.current_step = "insurance"]
       ELSE IF choice.kind = "rejected"
       THEN Turn("Please enter a slot number") /\ UNCHANGED state
       ELSE IF 0 <= choice.value - 1 /\ choice.value - 1 < Len(slots[App])
       THEN /\ Turn("Slot Selected")
            /\ state' = [state EXCEPT !.selected_slot = slots[App][choice.value],
                                      !.current_step = "insurance"]
       ELSE Turn("Please select a valid slot number") /\ UNCHANGED state

\* _complete_booking, entered with the patient table df that
\* update_patient_insurance_info left.
CompleteBooking(df, csv, insurance_info) ==
    IF ConfirmAppointmentArgs # ConfirmAppointmentParams
    THEN \* TypeError, caught by the handler's except
         /\ Turn("Error completing booking")
         /\ state' = [state EXCEPT !.insurance_info = insurance_info]
         /\ patients_df' = [patients_df EXCEPT ![App] = df]
         /\ patients_csv' = csv
         /\ UNCHANGED <<confirmed_appointments, outbox, reminders, schedule_xlsx,
                        schedule_df>>
    ELSE LET patient_type == state.lookup_result.patient_type
             record == ConfirmationRecord(confirmed_appointments,
                                          state.lookup_result.patient_id,
                                          insurance_info.primary_carrier,
                                          state.selected_slot)
             updated == UpdatedSchedule(schedule_df[App], state.selected_slot,
                                        patient_type)
             marked == IF patient_type = "new"
                          /\ HasPatient(df, state.lookup_result.patient_id)
                       THEN AsReturning(df, state.lookup_result.patient_id)
                       ELSE df
         IN
         /\ Turn("Your Appointment is All Set")
         /\ confirmed_appointments' = Append(confirmed_appointments, record)
         /\ outbox' = outbox \cup {"confirmation_email", "confirmation_sms", "intake_form"}
         /\ schedule_df' = [schedule_df EXCEPT ![App] = updated]
         /\ schedule_xlsx' = updated
         /\ patients_df' = [patients_df EXCEPT ![App] = marked]
         /\ patients_csv' = IF marked # df THEN marked ELSE csv
         /\ reminders' = ReminderSchedule
         /\ state' = [state EXCEPT !.insurance_info = insurance_info,
                                   !.final_booking = TRUE,
                                   !.current_step = "completed"]

\* _handle_insurance
HandleInsurance(user_input) ==
    /\ state.current_step = "insurance"
    /\ UNCHANGED <<greeting_agent, slots>>
    /\ IF user_input = Blank
       THEN /\ Turn("repeat")
            /\ UNCHANGED <<state, insurance_agent, confirmed_appointments, outbox,
                           reminders, schedule_xlsx, schedule_df, patients_csv,
                           patients_df>>
       ELSE IF insurance_agent.current_field_index >= Len(RequiredFields)
       THEN \* IndexError, caught by the handler's except
            /\ Turn("Error collecting insurance information")
            /\ UNCHANGED <<state, insurance_agent, confirmed_appointments, outbox,
                           reminders, schedule_xlsx, schedule_df, patients_csv,
                           patients_df>>
       ELSE IF user_input.kind # "accepted"
       THEN /\ Turn("invalid")
            /\ UNCHANGED <<state, insurance_agent, confirmed_appointments, outbox,
                           reminders, schedule_xlsx, schedule_df, patients_csv,
                           patients_df>>
       ELSE LET field == RequiredFields[insurance_agent.current_field_index + 1]
                data == [f \in DOMAIN insurance_agent.collected_data \cup {field} |->
                            IF f = field THEN user_input.value
                            ELSE insurance_agent.collected_data[f]]
                id == state.lookup_result.patient_id
                insured == state.lookup_result.kind = "result"
                              /\ HasPatient(patients_df[App], id)
                df == IF insured
                      THEN WithInsurance(patients_df[App], id, data.primary_carrier)
                      ELSE patients_df[App]
            IN
            /\ insurance_agent' =
                  [current_field_index |-> insurance_agent.current_field_index + 1,
                   collected_data |-> data]
            /\ IF insurance_agent.current_field_index + 1 >= Len(RequiredFields)
               THEN CompleteBooking(df, IF insured THEN df ELSE patients_csv, data)
               ELSE /\ Turn("next field")
                    /\ UNCHANGED <<state, confirmed_appointments, outbox, reminders,
                                   schedule_xlsx, schedule_df, patients_csv, patients_df>>

AppSchedules ==
    { s \in GeneratedSchedules :
        /\ s[[doctor |-> "Dr. Naveen", location |-> "Gachibowli", date |-> 1,
              time |-> 960]].available
        /\ s[[doctor |-> "Dr. Naveen", location |-> "Gachibowli", date |-> 1,
              time |-> 930]].available }

AppInit ==
    /\ schedule_xlsx \in AppSchedules
    /\ schedule_df = [i \in Inst |-> schedule_xlsx]
    /\ slots = [i \in Inst |-> <<>>]
    /\ lastOp = NoOp
    /\ calls = 0
    /\ patients_csv \in GeneratedDirectories
    /\ patients_df = [i \in Inst |-> patients_csv]
    /\ lastLookup = NoLookup
    /\ registered = {}
    /\ AppIdle

\* What the user may type when the collector is at position index of fields.
Lines(fields, index) ==
    {Blank, Rejected}
        \cup (IF index < Len(fields)
              THEN { Accepted(v) : v \in FieldValues(fields[index + 1]) } ELSE {})

AppGreeting ==
    \E u \in Lines(Fields, greeting_agent.current_field) : HandleGreeting(u)
AppSlotSelection ==
    \E c \in {[kind |-> "first"], Rejected}
                \cup { [kind |-> "number", value |-> k] : k \in 0..(MaxOffered + 1) } :
        HandleSlotSelection(c)
AppInsurance ==
    \E u \in Lines(RequiredFields, insurance_agent.current_field_index) :
        HandleInsurance(u)

\* process_user_input dispatches on current_step; no step other than these
\* three is ever current while the conversation lasts.
AppNext == AppGreeting \/ AppSlotSelection \/ AppInsurance

SpecApp == AppInit /\ [][AppNext]_vars

-----------------------------------------------------------------------------
(* GreetingAgent and InsuranceAgent called directly, one typed line a call *)

\* None, or the text typed (a string of characters).
None == [none |-> TRUE, text |-> <<>>]
Typed(text) == [none |-> FALSE, text |-> text]

LetterChars == DOMAIN LowerCase \cup DOMAIN UpperCase
\* str.upper() of one character
Upper(c) == IF c \in DOMAIN UpperCase THEN UpperCase[c] ELSE c

\* str.title() of a word of letters
Title(word) == [k \in 1..Len(word) |-> IF k = 1 THEN Upper(word[k]) ELSE Lower(word[k])]

\* str.strip()
RECURSIVE LStrip(_)
LStrip(s) == IF s # <<>> /\ Head(s) = " " THEN LStrip(Tail(s)) ELSE s
Reverse(s) == [k \in 1..Len(s) |-> s[Len(s) + 1 - k]]
Strip(s) == Reverse(LStrip(Reverse(LStrip(s))))

IsDigitChar(c) == \E j \in 1..Len(DigitChars) : c = DigitChars[j]

\* str.isalnum()
IsAlnum(s) == s # <<>> /\ \A k \in 1..Len(s) : s[k] \in LetterChars \/ IsDigitChar(s[k])

\* str.replace(c, '')
Without(s, c) == SelectSeq(s, LAMBDA x : x # c)

\* int(text) of a string of digits
RECURSIVE ToInt(_)
ToInt(s) ==
    IF s = <<>> THEN 0
    ELSE 10 * ToInt(SubSeq(s, 1, Len(s) - 1))
            + (CHOOSE j \in 0..9 : DigitChars[j + 1] = s[Len(s)])

\* str(n) of a natural number
RECURSIVE Decimal(_)
Decimal(n) == IF n < 10 THEN <<DigitChars[n + 1]>>
              ELSE Decimal(n \div 10) \o <<DigitChars[(n % 10) + 1]>>

\* What a validator returns: the value it stored, or a refusal.
Ok(value) == [ok |-> TRUE, value |-> value]
Refused == [ok |-> FALSE, value |-> <<>>]

\* _validate_name
ValidateName(name) ==
    LET parts == SplitWords(Strip(name), <<>>) IN
    IF Len(parts) >= 2
    THEN Ok(JoinWords([k \in 1..Len(parts) |-> Title(parts[k])]))
    ELSE Refused

\* datetime.date(year, month, day) raises ValueError unless the date exists.
IsLeap(year) == (year % 4 = 0 /\ year % 100 # 0) \/ year % 400 = 0
DaysIn(year, month) ==
    IF month = 2 THEN (IF IsLeap(year) THEN 29 ELSE 28)
    ELSE IF month \in {4, 6, 9, 11} THEN 30 ELSE 31
DateExists(year, month, day) ==
    year \in 1..9999 /\ month \in 1..12 /\ day \in 1..DaysIn(year, month)

\* birth_date > today
LaterThan(birth, today) ==
    \/ birth.year > today.year
    \/ birth.year = today.year /\ birth.month > today.month
    \/ birth.year = today.year /\ birth.month = today.month /\ birth.day > today.day

\* today.year - birth.year - ((today.month, today.day) < (birth.month, birth.day))
Age(birth, today) ==
    today.year - birth.year
        - (IF today.month < birth.month
              \/ (today.month = birth.month /\ today.day < birth.day)
           THEN 1 ELSE 0)

MaxAge == 120

\* re.match(r'^\d{1,2}<sep>\d{1,2}<sep>\d{4}$', dob_input)
MatchesDatePattern(s, sep) ==
    LET parts == SplitOn(s, sep, <<>>) IN
    /\ Len(parts) = 3
    /\ \A k \in 1..3 : IsDigit(parts[k])
    /\ Len(parts[1]) \in 1..2 /\ Len(parts[2]) \in 1..2 /\ Len(parts[3]) = 4

\* The first reading of the three numbers a day-first habit would make.
ReadPartsDayFirst(parts) ==
    IF parts[2] <= 12 /\ parts[1] <= 31
    THEN [month |-> parts[2], day |-> parts[1], year |-> parts[3]]
    ELSE [month |-> parts[1], day |-> parts[2], year |-> parts[3]]
\* _validate_dob: the first reading of the three numbers (lines 263-269).
ReadParts(parts) ==
    IF parts[1] <= 12 /\ parts[2] <= 31
    THEN [month |-> parts[1], day |-> parts[2], year |-> parts[3]]
    ELSE IF parts[2] <= 12 /\ parts[1] <= 31
    THEN [month |-> parts[2], day |-> parts[1], year |-> parts[3]]
    ELSE [month |-> parts[1], day |-> parts[2], year |-> parts[3]]

\* _validate_dob once date(year, month, day) has been built: the checks
\* against today and the value stored, f"{month:02d}/{day:02d}/{year}".
CheckedDob(birth, today) ==
    IF LaterThan(birth, today) THEN Refused
    ELSE IF Age(birth, today) > MaxAge THEN Refused
    ELSE Ok(Digits(birth.month, 2) \o <<"/">> \o Digits(birth.day, 2) \o <<"/">>
               \o Decimal(birth.year))

\* _validate_dob
ValidateDob(dob_input, today) ==
    LET s == Strip(dob_input)
        sep == IF MatchesDatePattern(s, "/") THEN "/"
               ELSE IF MatchesDatePattern(s, "-") THEN "-" ELSE ""
    IN
    IF sep = "" THEN Refused
    ELSE LET texts == SplitOn(s, sep, <<>>)
             parts == [k \in 1..3 |-> ToInt(texts[k])]
             first == ReadParts(parts)
             other == [month |-> parts[2], day |-> parts[1], year |-> parts[3]]
         IN
         IF DateExists(first.year, first.month, first.day)
         THEN CheckedDob(first, today)
         ELSE IF parts[2] <= 12 /\ parts[1] <= 31
                 /\ DateExists(other.year, other.month, other.day)
         THEN CheckedDob(other, today)
         ELSE Refused

\* _validate_phone_input
ValidatePhoneInput(phone) ==
    LET p == Strip(phone)
        digits == SelectSeq(p, IsDigitChar)
    IN
    IF Len(digits) >= 10
    THEN Ok(IF Len(digits) = 10
            THEN <<"(">> \o SubSeq(digits, 1, 3) \o <<")", " ">> \o SubSeq(digits, 4, 6)
                     \o <<"-">> \o SubSeq(digits, 7, 10)
            ELSE IF Len(digits) = 11 /\ digits[1] = "1"
            THEN <<"+", "1", " ", "(">> \o SubSeq(digits, 2, 4) \o <<")", " ">>
                     \o SubSeq(digits, 5, 7) \o <<"-">> \o SubSeq(digits, 8, 11)
            ELSE p)
    ELSE Refused

\* _validate_email_input
ValidateEmailInput(email) ==
    LET e == LowerStr(Strip(email)) IN
    IF HasChar(e, "@") /\ HasChar(e, ".") THEN Ok(e) ELSE Refused

\* _validate_doctor_input
ValidateDoctorInput(doctor_input) ==
    LET d == LowerStr(Strip(doctor_input)) IN
    IF Contains(d, <<"n", "a", "v", "e", "e", "n">>) THEN Ok("Dr. Naveen")
    ELSE IF Contains(d, <<"n", "a", "r", "e", "s", "h">>) THEN Ok("Dr. Naresh")
    ELSE IF Contains(d, <<"a", "i", "s", "h">>) THEN Ok("Dr. Aish")
    ELSE IF Contains(d, <<"s", "h", "r", "e", "y", "a", "n", "s", "h">>)
    THEN Ok("Dr. Shreyansh")
    ELSE Refused

\* _validate_location_input
ValidateLocationInput(location_input) ==
    LET l == LowerStr(Strip(location_input)) IN
    IF Contains(l, <<"g", "a", "c", "h", "i", "b", "o", "w", "l", "i">>)
    THEN Ok("Gachibowli")
    ELSE IF Contains(l, <<"j", "u", "b", "l", "i", "e", "e">>)
            \/ Contains(l, <<"j", "u", "b", "i", "l", "e", "e">>)
    THEN Ok("Jubliee Hills")
    ELSE IF Contains(l, <<"b", "a", "n", "j", "a", "r", "a">>) THEN Ok("Banjara Hills")
    ELSE Refused

\* _process_current_field
ProcessCurrentField(field_name, user_input, today) ==
    CASE field_name = "patient_name" -> ValidateName(user_input)
      [] field_name = "date_of_birth" -> ValidateDob(user_input, today)
      [] field_name = "phone" -> ValidatePhoneInput(user_input)
      [] field_name = "email" -> ValidateEmailInput(user_input)
      [] field_name = "preferred_doctor" -> ValidateDoctorInput(user_input)
      [] field_name = "location" -> ValidateLocationInput(user_input)
      [] OTHER -> Refused

MinCarrierLength == 2
MinMemberIdLength == 5
MinGroupNumberLength == 3

\* _validate_carrier
ValidateCarrier(carrier) ==
    LET c == Strip(carrier) IN
    IF Len(c) < MinCarrierLength THEN Refused ELSE Ok(c)

\* _validate_member_id and _validate_group_number: the length is measured
\* on the stripped text, then spaces and hyphens are removed.
ValidateId(text, least) ==
    LET t == Strip(text)
        clean == Without(Without(t, " "), "-")
    IN
    IF Len(t) < least THEN Refused
    ELSE IF ~IsAlnum(clean) THEN Refused
    ELSE Ok(clean)

ValidateMemberId(member_id) == ValidateId(member_id, MinMemberIdLength)
ValidateGroupNumber(group_number) == ValidateId(group_number, MinGroupNumberLength)

\* _collect_field
CollectField(field_name, value) ==
    CASE field_name = "primary_carrier" -> ValidateCarrier(value)
      [] field_name = "member_id" -> ValidateMemberId(value)
      [] field_name = "group_number" -> ValidateGroupNumber(value)
      [] OTHER -> Refused

\* What process_input hands back: the kind of message, is_complete, and the
\* mapping (returned is FALSE where the third element is None); raised marks
\* an exception leaving process_input instead.
NoData == [f \in {} |-> <<>>]
AnswerWithData(agent, message, is_complete, data) ==
    [agent |-> agent, message |-> message, is_complete |-> is_complete,
     returned |-> TRUE, data |-> agent.collected_data, raised |-> FALSE]
Answer(agent, message, is_complete, data) ==
    [agent |-> agent, message |-> message, is_complete |-> is_complete,
     returned |-> is_complete, data |-> data, raised |-> FALSE]
Raised(agent, error) ==
    [agent |-> agent, message |-> error, is_complete |-> FALSE,
     returned |-> FALSE, data |-> NoData, raised |-> TRUE]

\* A store that forgets the fields collected before.
StoreOnlyField(collected_data, field, value) == [f \in {field} |-> value]
\* self.collected_data[field] = value
StoreField(collected_data, field, value) ==
    [f \in DOMAIN collected_data \cup {field} |->
        IF f = field THEN value ELSE collected_data[f]]

\* GreetingAgent.process_input
GreetingProcessInput(agent, user_input, today) ==
    IF user_input.none THEN Answer(agent, "I didn't catch that", FALSE, NoData)
    ELSE IF Strip(user_input.text) = <<>>
    THEN Answer(agent, "I didn't catch that", FALSE, NoData)
    ELSE IF agent.current_field >= Len(Fields) THEN Raised(agent, "IndexError")
    ELSE LET field == Fields[agent.current_field + 1]
             checked == ProcessCurrentField(field, Strip(user_input.text), today)
             data == StoreField(agent.collected_data, field, checked.value)
             index == agent.current_field + 1
         IN
         IF checked.ok
         THEN IF index >= Len(Fields)
              THEN Answer([current_field |-> index, collected_data |-> data],
                          "complete", TRUE, data)
              ELSE Answer([current_field |-> index, collected_data |-> data],
                          "next field", FALSE, NoData)
         ELSE Answer(agent, "invalid", FALSE, NoData)

\* process_input without its guards for None and blank lines: the line goes
\* straight to the current field.
InsuranceProcessInputUnchecked(agent, user_input) ==
    IF user_input.none \/ agent.current_field_index >= Len(RequiredFields)
    THEN Raised(agent, "Error")
    ELSE LET field == RequiredFields[agent.current_field_index + 1]
             checked == CollectField(field, Strip(user_input.text))
             data == StoreField(agent.collected_data, field, checked.value)
             index == agent.current_field_index + 1
         IN
         IF checked.ok
         THEN Answer([current_field_index |-> index, collected_data |-> data],
                     IF index >= Len(RequiredFields) THEN "complete" ELSE "next field",
                     index >= Len(RequiredFields),
                     IF index >= Len(RequiredFields) THEN data ELSE NoData)
         ELSE Answer(agent, "invalid", FALSE, NoData)
\* InsuranceAgent.process_input
InsuranceProcessInput(agent, user_input) ==
    IF user_input.none THEN Answer(agent, "I didn't catch that", FALSE, NoData)
    ELSE IF Strip(user_input.text) = <<>>
    THEN Answer(agent, "I didn't catch that", FALSE, NoData)
    ELSE IF agent.current_field_index >= Len(RequiredFields)
    THEN Raised(agent, "IndexError")
    ELSE LET field == RequiredFields[agent.current_field_index + 1]
             checked == CollectField(field, Strip(user_input.text))
             data == StoreField(agent.collected_data, field, checked.value)
             index == agent.current_field_index + 1
         IN
         IF checked.ok
         THEN IF index >= Len(RequiredFields)
              THEN Answer([current_field_index |-> index, collected_data |-> data],
                          "complete", TRUE, data)
              ELSE Answer([current_field_index |-> index, collected_data |-> data],
                          "next field", FALSE, NoData)
         ELSE Answer(agent, "invalid", FALSE, NoData)

\* The lines typed at the greeting collector.
GreetingLines ==
    { None, Typed(<<>>), Typed(<<" ", " ">>),
      Typed(<<"a", " ", "b">>),
      Typed(<<" ", "A", "a", " ", " ", "B", " ">>),
      Typed(<<"0", "6", "/", "2", "0", "/", "2", "0", "0", "4">>),
      Typed(<<"2", "0", "-", "6", "-", "2", "0", "0", "4">>),
      Typed(<<"5", "5", "5", "-", "1", "2", "3", "-", "4", "5", "6", "7">>),
      Typed(<<"5", "5", "5", "-", "1", "2", "3", "4">>),
      Typed(<<"A", "@", "b", ".", "c">>),
      Typed(<<"n", "a", "v", "e", "e", "n">>),
      Typed(<<"g", "a", "c", "h", "i", "b", "o", "w", "l", "i">>) }

\* The lines typed at the insurance collector.
InsuranceLines ==
    { None, Typed(<<>>), Typed(<<" ">>),
      Typed(<<"a">>),
      Typed(<<"a", "e", "t", "n", "a">>),
      Typed(<<"a", "b", "-", "1", "2">>),
      Typed(<<"m", "e", "m", "1", "2", "3", "4", "5">>),
      Typed(<<"a", "b", "#", "1", "2">>),
      Typed(<<"-", "-", "-", "-", "-">>),
      Typed(<<"g", "-", "1">>),
      Typed(<<"g", "1">>),
      Typed(<<" ", "g", "r", "p", " ", "1", "2", "3">>) }

\* date.today() on the days the collectors are used.
Todays == { [year |-> 2026, month |-> 11, day |-> 3],
            [year |-> 2024, month |-> 2, day |-> 29] }

\* A call on a collector: the collector before it and what it handed back.
CollectorCall(agent, op, input, before, answer) ==
    [agent |-> agent, op |-> op, input |-> input, before |-> before,
     message |-> answer.message, is_complete |-> answer.is_complete,
     returned |-> answer.returned, data |-> answer.data, raised |-> answer.raised]

CollectUnchanged ==
    UNCHANGED <<schedVars, dirVars, calls, state, confirmed_appointments, outbox,
                reminders, reply, now, issued>>

CollectGreeting ==
    \E user_input \in GreetingLines, today \in Todays :
        LET answer == GreetingProcessInput(greeting_agent, user_input, today) IN
        /\ greeting_agent' = answer.agent
        /\ lastTurn' = CollectorCall("greeting", "process_input", user_input,
                                     greeting_agent, answer)
        /\ UNCHANGED insurance_agent
        /\ CollectUnchanged

CollectInsurance ==
    \E user_input \in InsuranceLines :
        LET answer == InsuranceProcessInput(insurance_agent, user_input) IN
        /\ insurance_agent' = answer.agent
        /\ lastTurn' = CollectorCall("insurance", "process_input", user_input,
                                     insurance_agent, answer)
        /\ UNCHANGED greeting_agent
        /\ CollectUnchanged

\* GreetingAgent.reset
GreetingReset ==
    /\ greeting_agent' = [current_field |-> 0, collected_data |-> NoData]
    /\ lastTurn' = CollectorCall("greeting", "reset", None, greeting_agent,
                                 Answer(greeting_agent, "", FALSE, NoData))
    /\ UNCHANGED insurance_agent
    /\ CollectUnchanged

\* InsuranceAgent.reset
InsuranceReset ==
    /\ insurance_agent' = [current_field_index |-> 0, collected_data |-> NoData]
    /\ lastTurn' = CollectorCall("insurance", "reset", None, insurance_agent,
                                 Answer(insurance_agent, "", FALSE, NoData))
    /\ UNCHANGED greeting_agent
    /\ CollectUnchanged

CollectInit ==
    /\ SchedIdle
    /\ DirIdle
    /\ calls = 0
    /\ AppIdle

CollectNext == CollectGreeting \/ CollectInsurance \/ GreetingReset \/ InsuranceReset

SpecCollect == CollectInit /\ [][CollectNext]_vars

\* Dates of birth typed at the greeting collector: two numbers and a year,
\* with or without leading zeros, separated by "/" or "-".
DobNumbers == {0, 1, 2, 3, 4, 6, 11, 12, 13, 20, 28, 29, 30, 31, 32}
DobYears == {0, 1903, 1904, 1905, 1906, 2004, 2024, 2026, 2027}

Number(n, padded) == IF padded THEN Digits(n, 2) ELSE Decimal(n)

DobLine(a, b, year, sep, padded) ==
    Number(a, padded) \o <<sep>> \o Number(b, padded) \o <<sep>> \o Digits(year, 4)

\* Lines no pattern of _validate_dob matches: an ISO date, a two-digit year,
\* a three-digit month, dots, mixed separators, a compact date.
MalformedDobLines ==
    { <<"2", "0", "0", "4", "-", "0", "6", "-", "2", "0">>,
      <<"0", "6", "/", "2", "0", "/", "0", "4">>,
      <<"0", "0", "6", "/", "2", "0", "/", "2", "0", "0", "4">>,
      <<"0", "6", ".", "2", "0", ".", "2", "0", "0", "4">>,
      <<"0", "6", "/", "2", "0", "-", "2", "0", "0", "4">>,
      <<"0", "6", "2", "0", "2", "0", "0", "4">> }

DobLines ==
    { DobLine(a, b, y, sep, padded) :
        a \in DobNumbers, b \in DobNumbers, y \in DobYears, sep \in {"/", "-"},
        padded \in BOOLEAN }
      \cup MalformedDobLines

\* A call together with the day it was made on.
DatedCall(call, today) ==
    [f \in DOMAIN call \cup {"today"} |-> IF f = "today" THEN today ELSE call[f]]

\* The patient gives a name, then a date of birth; one that is refused ends
\* the behaviour (SpecCollect has the retries).
BirthName ==
    /\ greeting_agent.current_field = 0
    /\ \E name \in Names, today \in Todays :
          LET answer == GreetingProcessInput(greeting_agent, Typed(name), today) IN
          /\ greeting_agent' = answer.agent
          /\ lastTurn' = DatedCall(CollectorCall("greeting", "process_input",
                                                 Typed(name), greeting_agent, answer),
                                   today)
    /\ UNCHANGED insurance_agent
    /\ CollectUnchanged

BirthDate ==
    /\ greeting_agent.current_field = 1
    /\ lastTurn.message # "invalid"
    /\ \E line \in DobLines, today \in Todays :
          LET answer == GreetingProcessInput(greeting_agent, Typed(line), today) IN
          /\ greeting_agent' = answer.agent
          /\ lastTurn' = DatedCall(CollectorCall("greeting", "process_input",
                                                 Typed(line), greeting_agent, answer),
                                   today)
    /\ UNCHANGED insurance_agent
    /\ CollectUnchanged

BirthNext == BirthName \/ BirthDate

SpecBirth == CollectInit /\ [][BirthNext]_vars

-----------------------------------------------------------------------------
(* ConfirmationAgent called directly *)

MaxSeconds == 2                          \* seconds the clock advances
MaxConfirmations == 3                    \* ids issued in one behaviour

\* APT_<YYYYMMDD_HHMMSS>_<seq>
AppointmentId(timestamp, seq) == [timestamp |-> timestamp, seq |-> seq]

\* _generate_appointment_id
GenerateAppointmentId(confirmed, clock) == AppointmentId(clock, Len(confirmed) + 1)

\* The patient_info handed to confirm_appointment: complete, or lacking the
\* 'email' key, which raises KeyError once the confirmation email is built.
PatientInfos ==
    { [patient_name |-> "A B", email |-> "ab@example.com", phone |-> "5551234567"],
      [patient_name |-> "A B", phone |-> "5551234567"] }

\* The selected_slot handed to confirm_appointment.
ConfirmedSlots ==
    { [doctor |-> "Dr. Naveen", location |-> "Gachibowli", date |-> 1, time |-> 930,
       duration_available |-> d] : d \in GeneratedDurations }

\* What the notification service answers for the email and the SMS: both
\* True in mock mode; otherwise the SMS is not implemented and returns False.
SendOutcomes == { <<TRUE, TRUE>>, <<TRUE, FALSE>>, <<FALSE, FALSE>> }

\* confirm_appointment: the confirmation_record it appends.
ConfirmedRecord(appointment_id, patient_info, selected_slot, email_sent, sms_sent) ==
    [appointment_id |-> appointment_id, status |-> "confirmed",
     patient_name |-> patient_info.patient_name,
     appointment_date |-> selected_slot.date, appointment_time |-> selected_slot.time,
     doctor |-> selected_slot.doctor, location |-> selected_slot.location,
     duration |-> selected_slot.duration_available,
     form_sent |-> FALSE, email_sent |-> email_sent, sms_sent |-> sms_sent]

ConfirmUnchanged ==
    UNCHANGED <<schedVars, dirVars, calls, state, greeting_agent, insurance_agent,
                outbox, reminders, lastTurn>>

\* confirm_appointment
ConfirmAppointment(patient_info, selected_slot, email_sent, sms_sent) ==
    LET appointment_id == GenerateAppointmentId(confirmed_appointments, now) IN
    /\ Len(issued) < MaxConfirmations
    /\ IF "email" \notin DOMAIN patient_info
       THEN /\ reply' = "Error confirming appointment"
            /\ UNCHANGED <<confirmed_appointments, issued>>
       ELSE /\ reply' = "Appointment Confirmed"
            /\ confirmed_appointments' =
                  Append(confirmed_appointments,
                         ConfirmedRecord(appointment_id, patient_info, selected_slot,
                                         email_sent, sms_sent))
            /\ issued' = Append(issued, appointment_id)
    /\ UNCHANGED now
    /\ ConfirmUnchanged

\* clear_confirmation_history
ClearConfirmationHistory ==
    /\ confirmed_appointments' = <<>>
    /\ reply' = "cleared"
    /\ UNCHANGED <<now, issued>>
    /\ ConfirmUnchanged

\* A second passes.
ConfirmTick ==
    /\ now < MaxSeconds
    /\ now' = now + 1
    /\ UNCHANGED <<confirmed_appointments, issued, reply>>
    /\ ConfirmUnchanged

ConfirmCall ==
    \E patient_info \in PatientInfos, selected_slot \in ConfirmedSlots,
       sent \in SendOutcomes :
        ConfirmAppointment(patient_info, selected_slot, sent[1], sent[2])

ConfirmNext == ConfirmCall \/ ClearConfirmationHistory \/ ConfirmTick

SpecConfirm == CollectInit /\ [][ConfirmNext]_vars

-----------------------------------------------------------------------------
(* ReminderAgent called directly *)

MinutesPerHour == 60

\* ReminderAgent.reminder_types
ReminderTypes == <<"regular", "form_check", "confirmation">>

\* _get_action_for_reminder
ActionForReminder(reminder_num) ==
    CASE reminder_num = 1 -> "Confirm your appointment"
      [] reminder_num = 2 -> "Fill out your patient intake forms"
      [] reminder_num = 3 -> "Confirm you're still coming or cancel if needed"
      [] OTHER -> "Unknown action"

\* Reminders all placed a day ahead.
ScheduleRemindersDayAhead(date, time) ==
    [reminder_num \in 1..3 |->
        [type |-> ReminderTypes[reminder_num],
         scheduled_time |-> Stamp(date, time) - ReminderSchedule[1] * MinutesPerHour,
         sent |-> FALSE, response_received |-> FALSE,
         action_required |-> ActionForReminder(reminder_num)]]
\* schedule_reminders: reminder_1 .. reminder_3, times in minutes.
ScheduleReminders(date, time) ==
    [reminder_num \in 1..3 |->
        [type |-> ReminderTypes[reminder_num],
         scheduled_time |->
             Stamp(date, time) - ReminderSchedule[reminder_num] * MinutesPerHour,
         sent |-> FALSE, response_received |-> FALSE,
         action_required |-> ActionForReminder(reminder_num)]]

Outcome(status, next_action) == [status |-> status, next_action |-> next_action]
Unclear == Outcome("unclear", "resend_reminder")

KwConfirm == <<"c", "o", "n", "f", "i", "r", "m">>
KwConfirmed == <<"c", "o", "n", "f", "i", "r", "m", "e", "d">>
KwCancel == <<"c", "a", "n", "c", "e", "l">>
KwForms == <<"f", "o", "r", "m", "s">>
KwCompleted == <<"c", "o", "m", "p", "l", "e", "t", "e", "d">>
KwCall == <<"c", "a", "l", "l">>

\* A regular reminder that looks for 'cancel' before 'confirm'.
HandleRegularResponseCancelFirst(response) ==
    IF Contains(response, KwCancel) THEN Outcome("cancelled", "update_calendar")
    ELSE IF Contains(response, KwConfirm)
    THEN Outcome("confirmed", "schedule_form_reminder")
    ELSE IF Contains(response, KwForms) THEN Outcome("forms_sent", "send_intake_forms")
    ELSE Unclear
\* _handle_regular_response
HandleRegularResponse(response) ==
    IF Contains(response, KwConfirm) THEN Outcome("confirmed", "schedule_form_reminder")
    ELSE IF Contains(response, KwCancel) THEN Outcome("cancelled", "update_calendar")
    ELSE IF Contains(response, KwForms) THEN Outcome("forms_sent", "send_intake_forms")
    ELSE Unclear

\* _handle_form_check_response
HandleFormCheckResponse(response) ==
    IF Contains(response, KwCompleted)
    THEN Outcome("forms_completed", "schedule_final_reminder")
    ELSE IF Contains(response, KwForms) THEN Outcome("forms_resent", "send_intake_forms")
    ELSE IF Contains(response, KwCancel) THEN Outcome("cancelled", "update_calendar")
    ELSE Unclear

\* _handle_confirmation_response
HandleConfirmationResponse(response) ==
    IF Contains(response, KwConfirmed)
    THEN Outcome("confirmed", "prepare_for_appointment")
    ELSE IF Contains(response, KwCancel) THEN Outcome("cancelled", "update_calendar")
    ELSE IF Contains(response, KwCall) THEN Outcome("call_requested", "initiate_call")
    ELSE Unclear

\* process_reminder_response: what it returns for a reminder of the type.
ProcessReminderResponse(response, type) ==
    LET response_lower == Strip(LowerStr(response)) IN
    CASE type = "regular" -> HandleRegularResponse(response_lower)
      [] type = "form_check" -> HandleFormCheckResponse(response_lower)
      [] type = "confirmation" -> HandleConfirmationResponse(response_lower)
      [] OTHER -> Outcome("", "")

\* The replies patients send.
Responses ==
    { <<"C", "O", "N", "F", "I", "R", "M">>,
      <<"c", "o", "n", "f", "i", "r", "m", "e", "d">>,
      <<" ", "C", "a", "n", "c", "e", "l", " ">>,
      <<"N", "E", "E", "D", " ", "F", "O", "R", "M", "S">>,
      <<"F", "O", "R", "M", "S", " ", "C", "O", "M", "P", "L", "E", "T", "E", "D">>,
      <<"C", "A", "L", "L", " ", "U", "S">>,
      <<"c", "a", "n", "c", "e", "l", " ", "n", "o", "t", " ", "c", "o", "n", "f",
        "i", "r", "m">>,
      <<"o", "k">>,
      <<>> }

\* The appointments reminders are scheduled for: a date and a time of day.
ReminderDates == {1, 2}
ReminderTimes == {30, 540, 990}

RemindUnchanged ==
    UNCHANGED <<schedVars, dirVars, calls, greeting_agent, insurance_agent,
                confirmed_appointments, outbox, reply, now, issued>>

\* schedule_reminders for the appointment of the selected slot
ScheduleRemindersCall ==
    \E date \in ReminderDates, time \in ReminderTimes :
        /\ reminders' = ScheduleReminders(date, time)
        /\ state' = [state EXCEPT !.selected_slot =
                        [doctor |-> "Dr. Naveen", location |-> "Gachibowli",
                         date |-> date, time |-> time,
                         duration_available |-> SlotMinutes]]
        /\ lastTurn' = [agent |-> "reminder", op |-> "schedule_reminders"]
        /\ RemindUnchanged

\* process_reminder_response on one of the scheduled reminders
ProcessReminderResponseCall ==
    /\ reminders # <<>>
    /\ \E reminder_num \in 1..Len(reminders), response \in Responses :
          /\ reminders' = [reminders EXCEPT ![reminder_num].response_received = TRUE]
          /\ lastTurn' = [agent |-> "reminder", op |-> "process_reminder_response",
                          type |-> reminders[reminder_num].type,
                          response |-> response,
                          outcome |-> ProcessReminderResponse(
                                          response, reminders[reminder_num].type)]
    /\ UNCHANGED state
    /\ RemindUnchanged

RemindNext == ScheduleRemindersCall \/ ProcessReminderResponseCall

SpecRemind == CollectInit /\ [][RemindNext]_vars

-----------------------------------------------------------------------------
(* Claims about the schedule *)

IsBooking == lastOp.op \in {"book", "update"} /\ lastOp.slot # NoSlot

FirstRow == Key(lastOp.slot)
SecondRow == Key(SecondSlot(lastOp.slot))

\* The rows of the table the last booking call aimed at.
Targets ==
    ({FirstRow} \cup (IF lastOp.patient_type = "new" THEN {SecondRow} ELSE {}))
        \cap Rows

\* The table the last call left in its instance's memory.
After == schedule_df[lastOp.inst]

Booked(df, r) == df[r].available = FALSE /\ df[r].duration_available = 0

\* C1: no slot is reserved by more than one successful booking: a booking
\* call that reports success aimed only at rows that were still available,
\* in the caller's table and in the shared file.
C1_NoDoubleBooking ==
    (IsBooking /\ lastOp.success) =>
        Targets \subseteq (lastOp.free \cap lastOp.fileFree)

\* C2: a new-patient booking at time t either books the rows at t and t+30
\* (both end unavailable with duration 0, no other row changes), or, when
\* the row at t+30 is missing or unavailable, fails and changes no row.
C2_NewPatientBooksPairOrNothing ==
    (IsBooking /\ lastOp.patient_type = "new") =>
        IF SecondRow \in lastOp.free
        THEN /\ lastOp.success
             /\ Booked(After, FirstRow) /\ Booked(After, SecondRow)
             /\ lastOp.changed \subseteq {FirstRow, SecondRow}
        ELSE ~lastOp.success /\ lastOp.changed = {}

\* C3: a returning-patient booking changes exactly one row, the chosen one,
\* which ends unavailable with duration 0; every other row is unchanged.
C3_ReturningChangesExactlyOneRow ==
    (IsBooking /\ lastOp.patient_type = "returning" /\ lastOp.success) =>
        lastOp.changed = {FirstRow} /\ Booked(After, FirstRow)

IsFind(duration) ==
    lastOp.op = "find" /\ lastOp.slot.duration_available = duration

\* The list the last find returned, and the table it searched.
Offered == slots[lastOp.inst]
Searched == schedule_df[lastOp.inst]

Requested(r) == r.doctor = lastOp.slot.doctor /\ r.location = lastOp.slot.location

\* C13: for a required duration of 60, every slot offered is an available
\* row of the requested doctor and location that has an available row of the
\* same doctor and location exactly 30 minutes after it.
C13_OfferedSlotsStartAPair ==
    IsFind(60) =>
        \A k \in 1..Len(Offered) :
            /\ Requested(Offered[k])
            /\ RowFree(Searched, Key(Offered[k]))
            /\ \E r \in DOMAIN Searched :
                  /\ Requested(r)
                  /\ Searched[r].available
                  /\ Stamp(r.date, r.time)
                        = Stamp(Offered[k].date, Offered[k].time) + 30

\* A 60-minute search offered a slot and left out an available row that has
\* no available row 30 minutes after it.
C13_Witness ==
    /\ IsFind(60) /\ Offered # <<>>
    /\ \E r \in DOMAIN Searched :
          /\ Requested(r) /\ Searched[r].available
          /\ \A q \in DOMAIN Searched :
                (Requested(q) /\ Stamp(q.date, q.time) = Stamp(r.date, r.time) + 30)
                    => ~Searched[q].available
          /\ \A k \in 1..Len(Offered) : Key(Offered[k]) # r

\* The rows a 30-minute request qualifies.
Qualifying ==
    { r \in DOMAIN Searched :
        Requested(r) /\ Searched[r].available = TRUE
                     /\ Searched[r].duration_available >= 30 }

\* C14: for a required duration of 30, the slots offered are the first 7, in
\* ascending order of date and time, of the rows of the requested doctor and
\* location that are available with at least 30 minutes; when no row
\* qualifies the answer is the 'no slots' message and an empty list.
C14_OfferedAreFirstSevenQualifying ==
    IsFind(30) =>
        /\ Len(Offered) = IF Cardinality(Qualifying) < 7 THEN Cardinality(Qualifying)
                          ELSE 7
        /\ \A k \in 1..Len(Offered) :
              /\ Key(Offered[k]) \in Qualifying
              /\ Offered[k].duration_available
                    = Searched[Key(Offered[k])].duration_available
        /\ \A j, k \in 1..Len(Offered) :
              j < k => Stamp(Offered[j].date, Offered[j].time)
                          < Stamp(Offered[k].date, Offered[k].time)
        /\ \A r \in Qualifying :
              (\A k \in 1..Len(Offered) : Key(Offered[k]) # r)
                  => \A k \in 1..Len(Offered) :
                        Stamp(Offered[k].date, Offered[k].time) < Stamp(r.date, r.time)
        /\ lastOp.success <=> Qualifying # {}

\* A 30-minute search found more than 7 qualifying rows and offered 7.
C14_Witness ==
    /\ IsFind(30)
    /\ Cardinality(Qualifying) > 7
    /\ Len(Offered) = 7

ConsistentRow(row) == (row.duration_available = 0) <=> (row.available = FALSE)

\* C6: in the file and in every instance's table, each row has duration 0
\* exactly when it is unavailable.
C6_DurationZeroIffUnavailable ==
    /\ \A r \in Rows : ConsistentRow(schedule_xlsx[r])
    /\ \A i \in Inst : \A r \in Rows : ConsistentRow(schedule_df[i][r])

\* A booking has just made an available row unavailable, in memory and on file.
C6_Witness ==
    /\ IsBooking /\ lastOp.success
    /\ \E r \in lastOp.changed : r \in lastOp.free /\ Booked(schedule_xlsx, r)

-----------------------------------------------------------------------------
(* Claims about the patient directory *)

IsSearch == lastLookup.op = "search"

\* C7: every search on an available directory returns a LookupResult, of 60
\* minutes when the patient is new and of 30 minutes when returning; new is
\* never paired with 30 nor returning with 60.
C7_DurationMatchesPatientType ==
    (IsSearch /\ lastLookup.available) =>
        /\ lastLookup.result.kind = "result"
        /\ lastLookup.result.patient_type \in {"new", "returning"}
        /\ lastLookup.result.patient_type = "new"
              => lastLookup.result.appointment_duration = 60
        /\ lastLookup.result.patient_type = "returning"
              => lastLookup.result.appointment_duration = 30

\* A search has answered returning, after another search registered a new patient.
C7_Witness ==
    /\ IsSearch /\ lastLookup.matched
    /\ lastLookup.result.patient_type = "returning"
    /\ registered # {}

\* C8: a search that matches no row of the directory (a directory with no
\* rows included) appends exactly one row, answers new with 60 minutes, and
\* hands out an id whose number is one more than the greatest number already
\* in the directory, hence greater than all of them.
C8_MissRegistersNewPatient ==
    (IsSearch /\ ~lastLookup.matched) =>
        /\ lastLookup.result.kind = "result"
        /\ lastLookup.result.patient_type = "new"
        /\ lastLookup.result.appointment_duration = 60
        /\ Len(patients_csv) = lastLookup.csvLenBefore + 1
        /\ \A n \in lastLookup.numsBefore : lastLookup.result.patient_id.num > n
        /\ lastLookup.result.patient_id.num = MaxOf(lastLookup.numsBefore) + 1

\* C9: once a search has registered a patient, every later search for the
\* same name and date of birth, by the same instance or by one loaded from
\* the file afterwards, answers returning with 30 minutes and the same
\* patient_id, and adds no row.
C9_RegisteredPatientIsReturning ==
    (IsSearch /\ lastLookup.known # {}) =>
        /\ lastLookup.result.kind = "result"
        /\ lastLookup.result.patient_type = "returning"
        /\ lastLookup.result.appointment_duration = 30
        /\ lastLookup.result.patient_id \in lastLookup.known
        /\ Len(patients_csv) = lastLookup.csvLenBefore

\* C11: an instance whose table did not load answers a search with the
\* 'not available' message and no result, and neither a search nor an
\* insurance update nor a mark-as-returning creates a row or writes the file.
C11_UnloadedStoreIsLeftAlone ==
    (lastLookup.op \in {"search", "insure", "mark"} /\ ~lastLookup.available) =>
        /\ lastLookup.result = NoResult
        /\ ~lastLookup.wrote
        /\ Len(patients_csv) = lastLookup.csvLenBefore
        /\ patients_df[lastLookup.inst] = <<>>

\* A search was made on a table that did not load while the file holds rows.
C11_Witness ==
    /\ IsSearch /\ ~lastLookup.available
    /\ patients_csv # <<>>
    /\ lastLookup.result = NoResult

\* C12: every rendering of the date a search was given (MM/DD/YYYY,
\* MM-DD-YYYY, YYYYMMDD, ISO YYYY-MM-DD) normalizes to the same string as the
\* one given, and the search matches a row of that name which stores the same
\* calendar date in any of these forms.
C12_SameDateSameNormalForm ==
    (IsSearch /\ lastLookup.available) =>
        /\ \A r \in Renderings(CalendarDate(lastLookup.dob)) :
              NormalizedDobs[r] = NormalizedDobs[lastLookup.dob]
        /\ lastLookup.sameDate => lastLookup.matched

SamePatient(row1, row2) ==
    /\ row1.first_name = row2.first_name /\ row1.last_name = row2.last_name
    /\ row1.dob = row2.dob

\* C10: the rows of two different patients in the file never carry the same
\* patient_id, whichever instances registered them and in whatever order.
C10_DistinctPatientsDistinctIds ==
    \A j, k \in 1..Len(patients_csv) :
        (j # k /\ ~SamePatient(patients_csv[j], patients_csv[k]))
            => patients_csv[j].patient_id # patients_csv[k].patient_id

-----------------------------------------------------------------------------
(* Claims about the conversation *)

\* C5: a session that has supplied six valid patient fields, chosen an
\* offered slot and supplied its third valid insurance field is at the step
\* 'completed', with exactly one confirmation record, of status confirmed,
\* and a reminder set of exactly three entries.
C5_ValidSessionCompletes ==
    insurance_agent.current_field_index = Len(RequiredFields) =>
        /\ state.current_step = "completed"
        /\ Len(confirmed_appointments) = 1
        /\ \A k \in 1..Len(confirmed_appointments) :
              confirmed_appointments[k].status = "confirmed"
        /\ Len(reminders) = 3

-----------------------------------------------------------------------------
(* The collectors, one field a turn *)

IsTurn == lastTurn.op = "process_input"
\* The collector the last call was made on, as it is now, and its fields.
Collector == IF lastTurn.agent = "greeting" THEN greeting_agent ELSE insurance_agent
CollectorFields == IF lastTurn.agent = "greeting" THEN Fields ELSE RequiredFields
IndexOf(agent) ==
    IF lastTurn.agent = "greeting" THEN agent.current_field
    ELSE agent.current_field_index
IsAccepted == IsTurn /\ IndexOf(Collector) # IndexOf(lastTurn.before)

IsBlankLine(input) == input.none \/ \A k \in 1..Len(input.text) : input.text[k] = " "

\* C16: whatever field a collector is at, and also once it holds all its
\* fields, a call of process_input with None, an empty line or a line of
\* blanks answers "I didn't catch that", raises nothing, reports not
\* complete with no mapping, and leaves the index and the collected values
\* as they were.
C16_BlankLineChangesNothing ==
    (IsTurn /\ IsBlankLine(lastTurn.input)) =>
        /\ lastTurn.message = "I didn't catch that"
        /\ ~lastTurn.raised
        /\ ~lastTurn.is_complete /\ ~lastTurn.returned
        /\ Collector = lastTurn.before

\* C16 witness: a line of blanks typed at the insurance collector that
\* already holds its three fields, the greeting collector being halfway.
C16_Witness ==
    /\ IsTurn /\ lastTurn.agent = "insurance"
    /\ ~lastTurn.input.none /\ lastTurn.input.text # <<>>
    /\ IsBlankLine(lastTurn.input)
    /\ IndexOf(lastTurn.before) = Len(RequiredFields)
    /\ greeting_agent.current_field = 3

FieldSet(fields) == { fields[k] : k \in 1..Len(fields) }

-----------------------------------------------------------------------------
(* The date of birth the greeting collector stores *)

IsDobTurn ==
    /\ IsTurn /\ lastTurn.agent = "greeting"
    /\ lastTurn.before.current_field = 1
    /\ lastTurn.message = "next field"

\* The numbers typed, in the order typed.
TypedParts ==
    LET text == Strip(lastTurn.input.text)
        texts == SplitOn(text, IF HasChar(text, "/") THEN "/" ELSE "-", <<>>)
    IN [k \in 1..3 |-> ToInt(texts[k])]

\* The stored text read as MM/DD/YYYY.
StoredDob ==
    LET text == greeting_agent.collected_data["date_of_birth"] IN
    [month |-> ToInt(SubSeq(text, 1, 2)), day |-> ToInt(SubSeq(text, 4, 5)),
     year |-> ToInt(SubSeq(text, 7, 10))]

\* C18: every date of birth the greeting collector accepts is stored as ten
\* characters MM/DD/YYYY naming a date of the calendar that is not after
\* today and gives an age of at most 120; it is made of the numbers typed;
\* the first number is the month whenever it is at most 12 (month-first wins
\* when both readings are possible), and is the day when it is above 12.
C18_AcceptedDobIsCanonical ==
    IsDobTurn =>
        LET text == greeting_agent.collected_data["date_of_birth"]
            typed == TypedParts
            stored == StoredDob
        IN
        /\ Len(text) = 10 /\ text[3] = "/" /\ text[6] = "/"
        /\ \A k \in {1, 2, 4, 5, 7, 8, 9, 10} : IsDigitChar(text[k])
        /\ DateExists(stored.year, stored.month, stored.day)
        /\ ~LaterThan(stored, lastTurn.today)
        /\ Age(stored, lastTurn.today) <= MaxAge
        /\ stored.year = typed[3]
        /\ typed[1] <= 12 => (stored.month = typed[1] /\ stored.day = typed[2])
        /\ typed[1] > 12 => (stored.day = typed[1] /\ stored.month = typed[2])

\* C18 witness: lines accepted with the day typed first (20/06/2004) are
\* stored month first.
C18_Witness ==
    /\ IsDobTurn
    /\ TypedParts = <<20, 6, 2004>>
    /\ StoredDob = [month |-> 6, day |-> 20, year |-> 2004]

-----------------------------------------------------------------------------
(* The insurance identifiers *)

\* The line typed with its spaces and hyphens removed.
Cleaned(text) == Without(Without(Strip(text), " "), "-")

\* C19: the insurance collector accepts a member ID only if, with spaces and
\* hyphens removed, it is alphanumeric and at least 5 characters long, and a
\* group number only if, likewise, it is alphanumeric and at least 3 long.
C19_IdsLongEnoughAfterCleaning ==
    (IsAccepted /\ lastTurn.agent = "insurance") =>
        LET field == RequiredFields[IndexOf(lastTurn.before) + 1]
            clean == Cleaned(lastTurn.input.text)
        IN
        /\ field = "member_id" =>
              (IsAlnum(clean) /\ Len(clean) >= MinMemberIdLength)
        /\ field = "group_number" =>
              (IsAlnum(clean) /\ Len(clean) >= MinGroupNumberLength)

-----------------------------------------------------------------------------
(* A booking that raised *)

\* C20: a turn whose booking raised an error answers with an error reply,
\* leaves the session at the step it was at (insurance), and leaves the
\* session able to be retried to completion: since completing takes a turn
\* in which the insurance collector accepts a line, the collector still has
\* a field to accept.
C20_BookingErrorCanBeRetried ==
    reply = "Error completing booking" =>
        /\ state.current_step = "insurance"
        /\ ~state.final_booking
        /\ insurance_agent.current_field_index < Len(RequiredFields)

-----------------------------------------------------------------------------
(* The order of the workflow *)

\* C21: the lookup has run only when the greeting collector holds all six
\* fields, and once a slot is selected and insurance collection has started
\* the selected slot is reserved: its row of the schedule file is no longer
\* available.
C21_SlotReservedWhenSelected ==
    /\ state.lookup_result.kind = "result" =>
          greeting_agent.current_field = Len(Fields)
    /\ state.current_step \in {"insurance", "completed"} =>
          ~schedule_xlsx[Key(state.selected_slot)].available

-----------------------------------------------------------------------------
(* A returning patient's booking *)

Remaining(duration) == IF duration - SlotMinutes > 0 THEN duration - SlotMinutes ELSE 0

\* C23: after update_doctor_schedule has booked a free slot for a returning
\* patient, the row of that slot in the file has duration_available equal to
\* max(0, the slot's duration_available - 30): a slot of 60 minutes keeps 30.
C23_ReturningKeepsRemainder ==
    (/\ lastOp.op = "update" /\ lastOp.patient_type = "returning" /\ lastOp.success
     /\ Key(lastOp.slot) \in lastOp.free) =>
        schedule_xlsx[Key(lastOp.slot)].duration_available =
            Remaining(lastOp.slot.duration_available)

-----------------------------------------------------------------------------
(* Notifications of a booking *)

Notifications == {"confirmation_email", "confirmation_sms", "intake_form"}

\* C22: a notification that did not go out does not abort the booking
\* transaction: once the transaction has been entered (the insurance
\* information is in the session), whichever of the confirmation email, the
\* confirmation SMS and the intake form is missing from what was sent, the
\* confirmation record has been created and the session is completed.
C22_UnsentNotificationKeepsBooking ==
    \A item \in Notifications :
        (DOMAIN state.insurance_info # {} /\ item \notin outbox) =>
            /\ Len(confirmed_appointments) = 1
            /\ state.current_step = "completed"

-----------------------------------------------------------------------------
(* Appointment ids *)

\* C24: the ids one ConfirmationAgent has issued carry a running sequence
\* number, the k-th successful confirmation getting k (a failed one taking
\* none), and no two of them are equal, also after
\* clear_confirmation_history and within one second.
C24_AppointmentIdsRunAndDiffer ==
    /\ \A k \in 1..Len(issued) : issued[k].seq = k
    /\ \A j, k \in 1..Len(issued) : j # k => issued[j] # issued[k]

-----------------------------------------------------------------------------
(* Reminders *)

Appointment == Stamp(state.selected_slot.date, state.selected_slot.time)

\* C25: schedule_reminders returns exactly three entries, numbered 1 to 3, of
\* types regular, form_check and confirmation, scheduled 24 hours, 2 hours and
\* 1 hour before the start of the appointment, each with sent and
\* response_received false.
C25_ThreeRemindersBeforeAppointment ==
    lastTurn.op = "schedule_reminders" =>
        /\ DOMAIN reminders = 1..3
        /\ reminders[1].type = "regular"
        /\ reminders[2].type = "form_check"
        /\ reminders[3].type = "confirmation"
        /\ reminders[1].scheduled_time = Appointment - 24 * 60
        /\ reminders[2].scheduled_time = Appointment - 2 * 60
        /\ reminders[3].scheduled_time = Appointment - 60
        /\ \A k \in 1..3 : ~reminders[k].sent /\ ~reminders[k].response_received

\* C25 witness: reminders just scheduled for an appointment at 00:30, whose
\* reminders all fall on earlier days.
C25_Witness ==
    /\ lastTurn.op = "schedule_reminders"
    /\ state.selected_slot.time = 30 /\ state.selected_slot.date = 2
    /\ reminders[3].scheduled_time = Stamp(1, 1410)

IsResponse == lastTurn.op = "process_reminder_response"

\* The keywords of a reminder type with the action each one asks for.
Keywords(type) ==
    CASE type = "regular" ->
           { <<KwConfirm, "schedule_form_reminder">>, <<KwCancel, "update_calendar">>,
             <<KwForms, "send_intake_forms">> }
      [] type = "form_check" ->
           { <<KwCompleted, "schedule_final_reminder">>, <<KwForms, "send_intake_forms">>,
             <<KwCancel, "update_calendar">> }
      [] type = "confirmation" ->
           { <<KwConfirmed, "prepare_for_appointment">>, <<KwCancel, "update_calendar">>,
             <<KwCall, "initiate_call">> }

\* The keywords of the type found in the reply once lower-cased.
Found ==
    { kw \in Keywords(lastTurn.type) :
        Contains(LowerStr(lastTurn.response), kw[1]) }

\* C26: process_reminder_response decides by keyword on the lower-cased
\* reply: a reply containing 'confirm' to a regular reminder gives
\* schedule_form_reminder and not a cancellation; a reply containing one
\* keyword of the reminder's type gives that keyword's action, and one
\* containing several gives the action of one of them; a reply containing
\* none gives status unclear and next_action resend_reminder.
C26_ReminderResponseByKeyword ==
    IsResponse =>
        /\ (lastTurn.type = "regular"
                /\ Contains(LowerStr(lastTurn.response), KwConfirm)) =>
              /\ lastTurn.outcome.next_action = "schedule_form_reminder"
              /\ lastTurn.outcome.status # "cancelled"
        /\ Found # {} =>
              \E kw \in Found : lastTurn.outcome.next_action = kw[2]
        /\ Found = {} => lastTurn.outcome = Unclear

\* C26 witness: 'CONFIRM' in capitals answered to a regular reminder.
C26_Witness ==
    /\ IsResponse /\ lastTurn.type = "regular"
    /\ lastTurn.response = <<"C", "O", "N", "F", "I", "R", "M">>
    /\ lastTurn.outcome.next_action = "schedule_form_reminder"

-----------------------------------------------------------------------------
(* A collector that is complete *)

\* C27: no call of process_input raises an index error, whatever the state
\* of the collector; on a collector that already holds all its fields a
\* further line is handled and leaves the collector complete as it was.
C27_NoReadBeyondLastField ==
    IsTurn =>
        /\ ~lastTurn.raised
        /\ IndexOf(lastTurn.before) = Len(CollectorFields) =>
              Collector = lastTurn.before

-----------------------------------------------------------------------------
(* The models the collected mappings are handed to *)

MaxNameLength == 100
MinPhoneLength == 10
MaxCarrierLength == 100
MaxMemberIdLength == 20
MaxGroupNumberLength == 15

\* Literal[...] of preferred_doctor and of location
DoctorLiterals == {"Dr. Naveen", "Dr. Naresh", "Dr. Aish", "Dr. Shreyansh"}
LocationLiterals == {"Gachibowli", "Jubliee Hills", "Banjara Hills"}

\* PatientInfo.validate_dob on a text that matched ^\d{2}/\d{2}/\d{4}$
PatientInfoDob(v, today) ==
    LET month == ToInt(SubSeq(v, 1, 2))
        day == ToInt(SubSeq(v, 4, 5))
        year == ToInt(SubSeq(v, 7, 10))
    IN
    /\ DateExists(year, month, day)
    /\ ~LaterThan([year |-> year, month |-> month, day |-> day], today)
    /\ Age([year |-> year, month |-> month, day |-> day], today) \in 0..MaxAge

\* PatientInfo(**data) constructs: every field is given, the stripped text
\* meets the constraints of its Field and then passes its validator.
\* EmailStr is the check of the library: one "@" between a local part and a
\* domain with a period, neither of them empty.
PatientInfo(data, today) ==
    /\ \A k \in 1..Len(Fields) : Fields[k] \in DOMAIN data
    /\ LET v == Strip(data["patient_name"]) IN
          /\ Len(v) \in 2..MaxNameLength
          /\ Len(SplitWords(v, <<>>)) >= 2
    /\ LET v == Strip(data["date_of_birth"]) IN
          /\ Len(v) = 10
          /\ \A k \in {1, 2, 4, 5, 7, 8, 9, 10} : IsDigitChar(v[k])
          /\ v[3] = "/" /\ v[6] = "/"
          /\ PatientInfoDob(v, today)
    /\ data["preferred_doctor"] \in DoctorLiterals
    /\ data["location"] \in LocationLiterals
    /\ LET v == Strip(data["phone"]) IN
          /\ Len(v) >= MinPhoneLength
          /\ Len(SelectSeq(v, IsDigitChar)) >= 10
    /\ LET v == data["email"]
           parts == SplitOn(v, "@", <<>>)
       IN
          /\ CountChar(v, "@") = 1
          /\ Len(parts) = 2
          /\ parts[1] # <<>>
          /\ HasChar(parts[2], ".")
          /\ Head(parts[2]) # "." /\ parts[2][Len(parts[2])] # "."

\* InsuranceInfo.validate_member_id and validate_group_number on a text of
\* a length within the bounds of its Field
InsuranceInfoId(v, least, most) ==
    /\ Len(v) \in least..most
    /\ IsAlnum(Without(Without(v, " "), "-"))

\* InsuranceInfo(**data) constructs
InsuranceInfo(data) ==
    /\ \A k \in 1..Len(RequiredFields) : RequiredFields[k] \in DOMAIN data
    /\ Len(Strip(data["primary_carrier"])) \in MinCarrierLength..MaxCarrierLength
    /\ InsuranceInfoId(Strip(data["member_id"]), MinMemberIdLength, MaxMemberIdLength)
    /\ InsuranceInfoId(Strip(data["group_number"]), MinGroupNumberLength,
                       MaxGroupNumberLength)

\* C28: the collectors and the models agree: the mapping held by a patient
\* collector that is complete constructs a PatientInfo, and the mapping held
\* by an insurance collector that is complete constructs an InsuranceInfo.
C28_AcceptedMappingsConstruct ==
    /\ greeting_agent.current_field = Len(Fields) =>
          \A today \in Todays : PatientInfo(greeting_agent.collected_data, today)
    /\ insurance_agent.current_field_index = Len(RequiredFields) =>
          InsuranceInfo(insurance_agent.collected_data)

-----------------------------------------------------------------------------
(* The rows of the shared directory *)

\* The file csv still holds the row of this patient under this patient_id
\* (its other columns may have been updated).
HoldsRow(csv, row) ==
    \E j \in 1..Len(csv) :
        csv[j].patient_id = row.patient_id /\ SamePatient(csv[j], row)

\* C29: no call on any instance sharing the file removes a row from it:
\* every row the file holds before a search, an insurance update or a
\* mark-as-returning is still in the file after it.
C29_NoRowIsLost ==
    [][\A k \in 1..Len(patients_csv) : HoldsRow(patients_csv', patients_csv[k])]_vars

-----------------------------------------------------------------------------
(* The duration of a confirmed appointment *)

\* The record confirm_appointment builds for the slot the session has chosen.
RecordOfSession ==
    ConfirmationRecord(confirmed_appointments, state.lookup_result.patient_id, "",
                       state.selected_slot)

\* C30: the duration of every confirmation record is the one the lookup
\* required (60 minutes for a new patient, 30 for a returning one), and so
\* is the duration of the record built for the slot a session has chosen,
\* whatever duration_available the row of that slot carried.
C30_RecordedDurationIsRequired ==
    /\ \A k \in 1..Len(confirmed_appointments) :
          confirmed_appointments[k].duration = state.lookup_result.appointment_duration
    /\ state.current_step \in {"insurance", "completed"} =>
          RecordOfSession.duration = state.lookup_result.appointment_duration

====
